---------------------------- MODULE Spec2Model ----------------------------
(***************************************************************************)
(* A model of the slice-backed circular list of package list, of the       *)
(* Ordered view built on it and of the Heap adapter built on Ordered.      *)
(*                                                                         *)
(* The repository holds several revisions of the list; two are modelled:   *)
(*   - src/unnamed/part_000: the revision with the embedded `view`         *)
(*     (slen, len, back); the List operators without a suffix model it;    *)
(*   - src/list/list.go lines 549-1072: the revision with InsertFront,     *)
(*     PopFront and ReplaceN, the only one src/list/heap.go compiles       *)
(*     against; operators with the suffix A model it.                      *)
(*                                                                         *)
(* Three state machines share the variables: Spec (one List of part_000    *)
(* under its public methods), SpecHeap (one Heap) and SpecOrd (one         *)
(* Ordered).                                                               *)
(*                                                                         *)
(* Buffers are sequences (1-based); a Go slice offset p is s[p + 1].       *)
(* A slice has cap = len, as make() returns it.  A Go run-time panic is    *)
(* modelled by the flag p of an operator's result, and by the variable     *)
(* panicked of the state machine: the buffer then holds what the code had  *)
(* written before it panicked.                                             *)
(***************************************************************************)
EXTENDS Integers, Sequences, FiniteSets, TLC

(***************************************************************************)
(* Bounds of the model.                                                    *)
(***************************************************************************)
MaxCap == 3
MaxIns == 2
MaxVal == 3

Min2(a, b) == IF a <= b THEN a ELSE b
Min3(a, b, c) == Min2(a, Min2(b, c))

\* Go's remainder: truncated division, the sign follows the dividend.
GoMod(a, b) == IF a >= 0 THEN a % b ELSE 0 - ((0 - a) % b)

\* Go's integer division, truncated towards zero (b > 0).
GoDiv(a, b) == IF a >= 0 THEN a \div b ELSE 0 - ((0 - a) \div b)

\* The zero value of the element type.
Zero == 0

Zeros(n) == [k \in 1..n |-> Zero]

\* clear(s[i:j]) with 0 <= i <= j <= len(s).
ClearSlice(s, i, j) == [k \in 1..Len(s) |-> IF i < k /\ k <= j THEN Zero ELSE s[k]]

\* copy(dst[d:d+n], src[sr:sr+n]) between two distinct slices: the new dst.
CopyInto(dst, src, d, sr, n) ==
  [k \in 1..Len(dst) |-> IF d < k /\ k <= d + n THEN src[sr + (k - d)] ELSE dst[k]]

(***************************************************************************)
(* part_000: index arithmetic.                                             *)
(***************************************************************************)
\* The remainder alone, which keeps the sign of i.
fixTruncated(length, i) == IF length = 0 THEN 0 ELSE GoMod(i, length)

fix(length, i) ==
  IF length = 0 THEN 0
  ELSE IF 0 <= i /\ i < length THEN i
  ELSE IF 0 <= i /\ i < 2 * length THEN i - length
  ELSE IF i < 0 /\ (0 - length) < i THEN i + length
  ELSE GoMod(GoMod(i, length) + length, length)

FixAllocSize(newIntendedCap, maxCap) ==
  IF 0 <= maxCap /\ maxCap < newIntendedCap THEN maxCap ELSE newIntendedCap

\* AllocDefault: make([]T, size), a zeroed slice.
AllocDefault(min, max) == Zeros(FixAllocSize(GoDiv(min * 3, 2) + 1, max))

elBound(l, i) == i < l.len /\ 0 <= i

\* A range check that refuses the range ending at Len().
rngBoundExclusive(l, i, j) == j < l.len /\ i <= j /\ 0 <= i

rngBound(l, i, j) == j <= l.len /\ i <= j /\ 0 <= i

xBound(l, i, n) == elBound(l, i) /\ n <= l.len /\ 0 <= n

abs(l, i) == IF i + l.back >= l.slen THEN i + l.back - l.slen ELSE i + l.back

fixAbs(l, i) ==
  IF l.len = 0 THEN 0
  ELSE LET f == fix(l.len, i) IN IF f > l.slen THEN f - l.slen ELSE f

wraps(l) == l.slen - l.back < l.len

(***************************************************************************)
(* part_000: wrapCopy.  The code's copy(s1[i1:i1+copied], s2[i2:i2+copied]) *)
(* has s1 as the destination of Go's copy(dst, src).  The result holds     *)
(* both slices after the call and the count returned.                      *)
(***************************************************************************)
RECURSIVE wrapCopyLoop(_, _, _, _, _)
wrapCopyLoop(s1, s2, i1, i2, left) ==
  IF ~(0 < left) THEN s1
  ELSE LET copied == Min3(left, Len(s1) - i1, Len(s2) - i2)
       IN wrapCopyLoop(CopyInto(s1, s2, i1, i2, copied), s2,
                       fix(Len(s1), i1 + copied), fix(Len(s2), i2 + copied),
                       left - copied)

\* wrapCopy as its comment describes it: from s1 into s2.
wrapCopyForward(s1, s2, i1, i2, n) ==
  IF Len(s1) = 0 \/ Len(s2) = 0 \/ n < 1
  THEN [s1 |-> s1, s2 |-> s2, n |-> 0]
  ELSE [s1 |-> s1,
        s2 |-> wrapCopyLoop(s2, s1, fix(Len(s2), i2), fix(Len(s1), i1),
                            Min3(n, Len(s1), Len(s2))),
        n |-> Min3(n, Len(s1), Len(s2))]

wrapCopy(s1, s2, i1, i2, n) ==
  IF Len(s1) = 0 \/ Len(s2) = 0 \/ n < 1
  THEN [s1 |-> s1, s2 |-> s2, n |-> 0]
  ELSE LET c == Min3(n, Len(s1), Len(s2))
       IN [s1 |-> wrapCopyLoop(s1, s2, fix(Len(s1), i1), fix(Len(s2), i2), c),
           s2 |-> s2, n |-> c]

\* wrapCopy(s, s, i1, i2, n): both arguments are the same slice, so each
\* chunk reads what the chunks before it wrote (copy itself is a memmove).
RECURSIVE wrapCopySameLoop(_, _, _, _)
wrapCopySameLoop(s, i1, i2, left) ==
  IF ~(0 < left) THEN s
  ELSE LET copied == Min3(left, Len(s) - i1, Len(s) - i2)
       IN wrapCopySameLoop(CopyInto(s, s, i1, i2, copied),
                           fix(Len(s), i1 + copied), fix(Len(s), i2 + copied),
                           left - copied)

wrapCopySame(s, i1, i2, n) ==
  IF Len(s) = 0 \/ n < 1 THEN s
  ELSE wrapCopySameLoop(s, fix(Len(s), i1), fix(Len(s), i2), Min2(n, Len(s)))

(***************************************************************************)
(* part_000: selfWrapCopy.  The result is the slice and whether a slice    *)
(* expression of the "copy right part first" loop was out of range.        *)
(***************************************************************************)
RECURSIVE selfCopyRightLoop(_, _, _, _, _)
selfCopyRightLoop(s, j0, targetJ0, n, copied0) ==
  IF ~(0 < n) THEN [s |-> s, p |-> FALSE]
  ELSE LET l == Len(s)
           targetJ == IF targetJ0 - copied0 < 1 THEN targetJ0 - copied0 + l
                      ELSE targetJ0 - copied0
           j == IF j0 - copied0 < 1 THEN j0 - copied0 + l ELSE j0 - copied0
           copied == Min3(j, targetJ, n)
           lo == targetJ - copied
       IN IF lo > l \/ j > l THEN [s |-> s, p |-> TRUE]
          ELSE selfCopyRightLoop(
                 CopyInto(s, s, lo, j - copied, Min2(l - lo, copied)),
                 j, targetJ, n - copied, copied)

selfWrapCopy(s, i, n, m) ==
  LET l == Len(s) IN
  IF l = 0 \/ n < 1 \/ l <= n \/ l <= m \/ m = 0 THEN [s |-> s, p |-> FALSE]
  ELSE LET i1 == fix(l, i)
           targetI == fix(l, i1 + m)
       IN IF targetI < i1
          THEN [s |-> wrapCopySame(s, i1, targetI, n), p |-> FALSE]
          ELSE selfCopyRightLoop(s, i1 + n, targetI + n, n, 0)

(***************************************************************************)
(* part_000: wrapClear.  The result is the slice, the count returned and   *)
(* whether clear(s[i:j]) was reached with j < i.                           *)
(***************************************************************************)
RECURSIVE wrapClearLoop(_, _, _, _, _)
wrapClearLoop(s, i0, cleared, left0, n) ==
  IF ~(0 < left0) THEN [s |-> s, n |-> n, p |-> FALSE]
  ELSE LET l == Len(s)
           i == fix(l, i0 + cleared)
           left == left0 - cleared
           j == Min2(i + left, l)
       IN IF j < i THEN [s |-> s, n |-> n, p |-> TRUE]
          ELSE wrapClearLoop(ClearSlice(s, i, j), i, cleared + (j - i), left, n)

wrapClear(s, i, n) ==
  LET l == Len(s) IN
  IF l = 0 \/ n = 0 THEN [s |-> s, n |-> 0, p |-> FALSE]
  ELSE LET i1 == IF n < 0 THEN i + n ELSE i
           n1 == IF n < 0 THEN 0 - n ELSE n
       IN IF l <= n1 THEN [s |-> Zeros(l), n |-> l, p |-> FALSE]
          ELSE wrapClearLoop(s, i1, 0, n1, n1)

(***************************************************************************)
(* part_000: the List.  A list value is the record                         *)
(*   [s |-> buffer, slen |-> view.slen, len |-> view.len, back |-> view.back]. *)
(* The result of a List method is the record                               *)
(*   [l |-> the list after, err |-> the error returned ("nil" for none),   *)
(*    p |-> panicked, ret |-> the value returned,                          *)
(*    allocs |-> the <<min, max>> of every AllocFunc call,                 *)
(*    freed |-> the slices handed to FreeFunc, vals |-> the variadic       *)
(*    argument slice after the call].                                      *)
(***************************************************************************)
MkList(s, slen, len, back) == [s |-> s, slen |-> slen, len |-> len, back |-> back]

Res(l, err, p, ret, allocs, freed, vals) ==
  [l |-> l, err |-> err, p |-> p, ret |-> ret, allocs |-> allocs,
   freed |-> freed, vals |-> vals]

\* A method that returns err (or nil) without allocating or releasing.
Plain(l, err, ret) == Res(l, err, FALSE, ret, <<>>, <<>>, <<>>)

\* NewN that accepts a back offset equal to len(s).
NewNLoose(s, back, length) ==
  IF Len(s) < back \/ back < 0
  THEN [ok |-> FALSE, err |-> "ErrInvalidPosition", l |-> MkList(<<>>, 0, 0, 0)]
  ELSE IF Len(s) < length \/ length < 0
  THEN [ok |-> FALSE, err |-> "ErrInvalidAmount", l |-> MkList(<<>>, 0, 0, 0)]
  ELSE [ok |-> TRUE, err |-> "nil", l |-> MkList(s, Len(s), length, back)]

NewN(s, back, length) ==
  IF Len(s) < back \/ back < 0 \/ (Len(s) # 0 /\ Len(s) = back)
  THEN [ok |-> FALSE, err |-> "ErrInvalidPosition", l |-> MkList(<<>>, 0, 0, 0)]
  ELSE IF Len(s) < length \/ length < 0
  THEN [ok |-> FALSE, err |-> "ErrInvalidAmount", l |-> MkList(<<>>, 0, 0, 0)]
  ELSE [ok |-> TRUE, err |-> "nil", l |-> MkList(s, Len(s), length, back)]

New(s, useValues) ==
  IF useValues THEN MkList(s, Len(s), Len(s), 0) ELSE MkList(s, Len(s), 0, 0)

Cap(l) == l.slen

ListLen(l) == l.len

\* Free() computed from the buffer, as the revisions without the view do.
FreeOfBuffer(l) == Len(l.s) - l.len

Free(l) == l.slen - l.len

(***************************************************************************)
(* The allocation policy of a call.  AllocFunc is an exported field, so a  *)
(* caller may set any policy before any call:                              *)
(*   "default": AllocFunc is nil, AllocDefault is used;                    *)
(*   "error":   the policy returns an error;                               *)
(*   "exact":   a slice of min elements;                                   *)
(*   "under":   a slice one element short of min;                          *)
(*   "over":    a slice of max + 1 elements (min + 1 when max < 0);        *)
(*   "stale":   a slice of min + 1 elements (max when that is less) that   *)
(*              still holds the values of an earlier use.                  *)
(***************************************************************************)
Stale == MaxVal + 6

Policies == {"default", "error", "exact", "under", "over", "stale"}

AllocFuncOf(pol, min, max) ==
  CASE pol = "default" -> AllocDefault(min, max)
    [] pol = "exact" -> Zeros(min)
    [] pol = "under" -> Zeros(IF min > 0 THEN min - 1 ELSE 0)
    [] pol = "over" -> Zeros(IF max >= 0 THEN max + 1 ELSE min + 1)
    [] pol = "stale" -> [k \in 1..FixAllocSize(min + 1, max) |-> Stale]
    [] OTHER -> <<>>

\* alloc without the test of the slice against max.
allocMinOnly(pol, min, max) ==
  IF pol = "error" THEN [s |-> <<>>, err |-> "ErrAlloc"]
  ELSE IF Len(AllocFuncOf(pol, min, max)) < min
       THEN [s |-> <<>>, err |-> "ErrInvalidAllocation"]
       ELSE [s |-> AllocFuncOf(pol, min, max), err |-> "nil"]

alloc(pol, min, max) ==
  IF pol = "error" THEN [s |-> <<>>, err |-> "ErrAlloc"]
  ELSE LET s == AllocFuncOf(pol, min, max)
           ls == Len(s)
       IN IF ls < min \/ FixAllocSize(ls, max) # ls
          THEN [s |-> <<>>, err |-> "ErrInvalidAllocation"]
          ELSE [s |-> s, err |-> "nil"]

\* List.free: hasFree says whether FreeFunc is set.
free(l, newSlice, hasFree) ==
  LET c == IF hasFree THEN wrapClear(l.s, l.back, l.len)
           ELSE [s |-> l.s, n |-> 0, p |-> FALSE]
  IN IF c.p
     THEN [l |-> [l EXCEPT !.s = c.s], p |-> TRUE, freed |-> <<>>]
     ELSE [l |-> [l EXCEPT !.s = newSlice, !.slen = Len(newSlice)], p |-> FALSE,
           freed |-> IF hasFree THEN <<c.s>> ELSE <<>>]

grow(l, min, max, pol, hasFree) ==
  IF min <= Free(l) /\ (max < 0 \/ Free(l) <= max) THEN Plain(l, "nil", 0)
  ELSE LET needCap == l.len + GoDiv(max - min, 2) IN
       IF ~(l.slen < needCap) THEN Plain(l, "nil", 0)
       ELSE LET a == alloc(pol, min, max) IN
            IF a.err # "nil" THEN Res(l, a.err, FALSE, 0, <<<<min, max>>>>, <<>>, <<>>)
            ELSE LET wc == wrapCopy(l.s, a.s, l.back, 0, l.len)
                     fr == free([l EXCEPT !.s = wc.s1], wc.s2, hasFree)
                 IN IF fr.p THEN Res(fr.l, "nil", TRUE, 0, <<<<min, max>>>>, <<>>, <<>>)
                    ELSE Res([fr.l EXCEPT !.back = 0], "nil", FALSE, 0,
                             <<<<min, max>>>>, fr.freed, <<>>)

Grow(l, n, pol, hasFree) ==
  IF n < 0 THEN Plain(l, "ErrInvalidAmount", 0) ELSE grow(l, n, 0 - 1, pol, hasFree)

GrowRange(l, min, max, pol, hasFree) ==
  IF min < 0 \/ max < min THEN Plain(l, "ErrInvalidAmount", 0)
  ELSE grow(l, min, max, pol, hasFree)

\* l.s[i]: the element, or a panic when i is no index of the slice.
Index(s, i) ==
  IF 0 <= i /\ i < Len(s) THEN [v |-> s[i + 1], p |-> FALSE]
  ELSE [v |-> Zero, p |-> TRUE]

Val(l, i) ==
  IF elBound(l, i)
  THEN LET x == Index(l.s, abs(l, i)) IN [v |-> x.v, ok |-> ~x.p, p |-> x.p]
  ELSE [v |-> Zero, ok |-> FALSE, p |-> FALSE]

At(l, i) ==
  IF l.len = 0 THEN [v |-> Zero, p |-> FALSE] ELSE Index(l.s, fixAbs(l, i))

\* A rotation that moves the elements in the buffer and keeps the back offset.
RotateMoving(l, n) ==
  Plain([l EXCEPT !.s = [k \in 1..Len(l.s) |->
                           l.s[((k - 1 + fixAbs(l, n)) % Len(l.s)) + 1]]], "nil", 0)

Rotate(l, n) == Plain([l EXCEPT !.back = fixAbs(l, n)], "nil", 0)

Clear(l) ==
  LET c == wrapClear(l.s, l.back, l.len) IN
  IF c.p THEN Res([l EXCEPT !.s = c.s], "nil", TRUE, 0, <<>>, <<>>, <<>>)
  ELSE Plain([l EXCEPT !.s = c.s, !.back = 0, !.len = 0], "nil", c.n)

(***************************************************************************)
(* List.Replace, its reallocating path and its in-place path.              *)
(***************************************************************************)
ReplaceRealloc(l, i, vals, frontEls, needCap, pol, hasFree) ==
  LET a == alloc(pol, needCap, 0 - 1)
      req == <<<<needCap, 0 - 1>>>>
  IN IF a.err # "nil" THEN Res(l, a.err, FALSE, 0, req, <<>>, vals)
     ELSE LET c1 == wrapCopy(l.s, a.s, l.back, 0, i)
              c2 == wrapCopy(vals, c1.s2, 0, i, Len(vals))
              c3 == wrapCopy(c1.s1, c2.s2, fixAbs(l, 0 - frontEls), i + Len(vals), frontEls)
              fr == free([l EXCEPT !.s = c3.s1], c3.s2, hasFree)
          IN IF fr.p THEN Res(fr.l, "nil", TRUE, 0, req, <<>>, c2.s1)
             ELSE Res([fr.l EXCEPT !.back = 0, !.len = needCap], "nil", FALSE, 0,
                      req, fr.freed, c2.s1)

ReplaceInPlace(l, i, n, vals, frontEls, needCap) ==
  LET ls == Len(vals)
      balloonOffset == n - ls
      backPart == i < frontEls
      sw == IF backPart THEN selfWrapCopy(l.s, l.back, i, balloonOffset)
            ELSE selfWrapCopy(l.s, i + n, frontEls, balloonOffset)
      back1 == IF backPart THEN fixAbs(l, balloonOffset) ELSE l.back
      balloonStart == IF backPart THEN l.back ELSE fixAbs(l, l.len - balloonOffset)
  IN IF sw.p THEN Res([l EXCEPT !.s = sw.s], "nil", TRUE, 0, <<>>, <<>>, vals)
     ELSE LET wc == IF 0 < balloonOffset THEN wrapClear(sw.s, balloonStart, balloonOffset)
                    ELSE [s |-> sw.s, n |-> 0, p |-> FALSE]
              l1 == [l EXCEPT !.s = wc.s, !.back = back1]
          IN IF wc.p THEN Res(l1, "nil", TRUE, 0, <<>>, <<>>, vals)
             ELSE LET c == wrapCopy(vals, l1.s, 0, abs(l1, i), ls)
                  IN Res([l1 EXCEPT !.s = c.s2, !.len = needCap], "nil", FALSE, 0,
                         <<>>, <<>>, c.s1)

Replace(l, i, j, vals, pol, hasFree) ==
  IF ~rngBound(l, i, j) THEN Res(l, "ErrInvalidRange", FALSE, 0, <<>>, <<>>, vals)
  ELSE LET n == Min2(l.len - i, j - i) IN
       IF n < 1 /\ Len(vals) = 0 THEN Res(l, "nil", FALSE, 0, <<>>, <<>>, vals)
       ELSE LET frontEls == l.len - i - n
                needCap == i + Len(vals) + frontEls
            IN IF l.slen < needCap
               THEN ReplaceRealloc(l, i, vals, frontEls, needCap, pol, hasFree)
               ELSE ReplaceInPlace(l, i, n, vals, frontEls, needCap)

Insert(l, i, vals, pol, hasFree) ==
  IF ~rngBound(l, i, i) THEN Res(l, "ErrInvalidPosition", FALSE, 0, <<>>, <<>>, vals)
  ELSE Replace(l, i, i, vals, pol, hasFree)

ListAppend(l, vals, pol, hasFree) == Replace(l, l.len, l.len, vals, pol, hasFree)

Delete(l, i, j, pol, hasFree) == Replace(l, i, j, <<>>, pol, hasFree)

\* Push drops the error of Replace.
Push(l, v, pol, hasFree) ==
  [Replace(l, l.len, l.len, <<v>>, pol, hasFree) EXCEPT !.err = "nil"]

\* Pop calls l.Replace(l.len-1, 1) and drops its error.
Pop(l, pol, hasFree) ==
  LET x == Val(l, l.len - 1) IN
  IF x.p THEN Res(l, "nil", TRUE, Zero, <<>>, <<>>, <<>>)
  ELSE IF x.ok
       THEN [Replace(l, l.len - 1, 1, <<>>, pol, hasFree) EXCEPT !.err = "nil", !.ret = x.v]
       ELSE Plain(l, "nil", x.v)

SwapOK(l, i, j) ==
  IF elBound(l, i) \/ elBound(l, j) THEN Plain(l, "ErrInvalidPosition", FALSE)
  ELSE IF i = j THEN Plain(l, "nil", FALSE)
  ELSE LET a == abs(l, i)
           b == abs(l, j)
       IN IF Index(l.s, a).p \/ Index(l.s, b).p
          THEN Res(l, "nil", TRUE, FALSE, <<>>, <<>>, <<>>)
          ELSE Plain([l EXCEPT !.s = [l.s EXCEPT ![a + 1] = l.s[b + 1],
                                                 ![b + 1] = l.s[a + 1]]],
                     "nil", TRUE)

\* Swap drops both results of SwapOK.
Swap(l, i, j) == [SwapOK(l, i, j) EXCEPT !.err = "nil", !.ret = 0]

\* CopyTo that copies before it validates its arguments.
CopyToUnchecked(l, dst, i, n) ==
  LET wc == wrapCopy(l.s, dst, abs(l, i), 0, n) IN
  Res([l EXCEPT !.s = wc.s1], IF xBound(l, i, n) THEN "nil" ELSE "ErrInvalidRange",
      FALSE, 0, <<>>, <<>>, wc.s2)

\* CopyTo(s, i, n): vals of the result is the caller's slice after the call.
CopyTo(l, dst, i, n) ==
  IF ~xBound(l, i, n) THEN Res(l, "ErrInvalidRange", FALSE, 0, <<>>, <<>>, dst)
  ELSE IF n = 0 THEN Res(l, "nil", FALSE, 0, <<>>, <<>>, dst)
  ELSE LET wc == wrapCopy(l.s, dst, abs(l, i), 0, n)
       IN Res([l EXCEPT !.s = wc.s1], "nil", FALSE, 0, <<>>, <<>>, wc.s2)

\* rand.Shuffle(n, ll.Swap): swap(k, rnd[k]) for k = n-1 down to 1, where
\* rnd[k] is the number in [0, k] the random source gave.
RECURSIVE shuffleLoop(_, _, _)
shuffleLoop(ll, k, rnd) ==
  IF ~(k > 0) THEN Plain(ll, "nil", 0)
  ELSE IF Swap(ll, k, rnd[k]).p THEN Swap(ll, k, rnd[k])
  ELSE shuffleLoop(Swap(ll, k, rnd[k]).l, k - 1, rnd)

\* ShuffleRange(i, j): ll is a copy of the list that shares its buffer.
ShuffleRange(l, i, j, rnd) ==
  IF ~rngBound(l, i, j) THEN Plain(l, "ErrInvalidRange", 0)
  ELSE IF i = j THEN Plain(l, "nil", 0)
  ELSE LET r == shuffleLoop([l EXCEPT !.back = abs(l, i)], j - i - 1, rnd)
       IN Res([l EXCEPT !.s = r.l.s], "nil", r.p, 0, <<>>, <<>>, <<>>)

\* StringRange(i, n) with the default StringFunc: the string is modelled by
\* the sequence of the elements it prints ("[]" by the empty sequence).
StringRange(l, i, n) ==
  IF ~xBound(l, i, n) THEN Plain(l, "ErrInvalidRange", <<>>)
  ELSE IF n = 0 THEN Plain(l, "nil", <<>>)
  ELSE Res(l, "nil", \E k \in 0..(n - 1) : At(l, i + k).p,
           [k \in 1..n |-> At(l, i + k - 1).v], <<>>, <<>>, <<>>)

(***************************************************************************)
(* encoding/json, as far as List.UnmarshalJSON uses it.  A JSON text is a  *)
(* sequence of tokens; a number token carries its value.                   *)
(***************************************************************************)
Tok(t, v) == [t |-> t, v |-> v]
LB == Tok("[", 0)
RB == Tok("]", 0)
COMMA == Tok(",", 0)
STR == Tok("str", 0)
NULL == Tok("null", 0)
Num(v) == Tok("num", v)

IsScalar(tok) == tok.t \in {"num", "str", "null"}

\* The text between the brackets: scalar (, scalar)*.
RECURSIVE ValidItems(_)
ValidItems(d) ==
  IF Len(d) = 0 THEN FALSE
  ELSE IF ~IsScalar(d[1]) THEN FALSE
  ELSE IF Len(d) = 1 THEN TRUE
  ELSE d[2] = COMMA /\ ValidItems(SubSeq(d, 3, Len(d)))

\* json's checkValid, for texts without nested arrays or objects.
JsonValid(d) ==
  \/ Len(d) = 1 /\ IsScalar(d[1])
  \/ /\ Len(d) >= 2
     /\ d[1] = LB
     /\ d[Len(d)] = RB
     /\ (Len(d) = 2 \/ ValidItems(SubSeq(d, 2, Len(d) - 1)))

\* The scalars of a valid array text, in order.
RECURSIVE JsonItems(_)
JsonItems(d) ==
  IF Len(d) = 0 THEN <<>>
  ELSE IF IsScalar(d[1]) THEN <<d[1]>> \o JsonItems(Tail(d))
  ELSE JsonItems(Tail(d))

\* The capacity append gives a slice grown one element at a time from nil.
RECURSIVE GrowCap(_, _)
GrowCap(c, n) == IF n <= c THEN c ELSE GrowCap(IF c = 0 THEN 1 ELSE 2 * c, n)

\* json.Unmarshal(b, &s) for a nil s of integers: the slice it leaves, its
\* capacity and the error.  A string where a number is expected leaves the
\* zero value and is reported after the whole array is decoded; null leaves
\* the zero value and is no error.
JsonUnmarshal(d) ==
  IF ~JsonValid(d) THEN [s |-> <<>>, cap |-> 0, err |-> "SyntaxError"]
  ELSE IF d[1] = NULL THEN [s |-> <<>>, cap |-> 0, err |-> "nil"]
  ELSE IF d[1] # LB THEN [s |-> <<>>, cap |-> 0, err |-> "UnmarshalTypeError"]
  ELSE LET items == JsonItems(d) IN
       [s |-> [k \in 1..Len(items) |->
                 IF items[k].t = "num" THEN items[k].v ELSE Zero],
        cap |-> GrowCap(0, Len(items)),
        err |-> IF \E k \in 1..Len(items) : items[k].t = "str"
                THEN "UnmarshalTypeError" ELSE "nil"]

UnmarshalJSON(l, d, hasFree) ==
  LET fr == free([l EXCEPT !.back = 0], <<>>, hasFree) IN
  IF fr.p THEN Res(fr.l, "nil", TRUE, 0, <<>>, <<>>, <<>>)
  ELSE LET u == JsonUnmarshal(d) IN
       IF u.err # "nil"
       THEN Res([fr.l EXCEPT !.s = Zeros(Len(u.s))], u.err, FALSE, 0, <<>>,
                fr.freed, <<>>)
       ELSE Res(MkList(u.s \o Zeros(u.cap - Len(u.s)), Len(u.s), Len(u.s), 0),
                "nil", FALSE, 0, <<>>, fr.freed, <<>>)

(***************************************************************************)
(* The calls a caller can make on a list l.  A call is the record          *)
(*   [i, j |-> integer arguments, vals |-> slice argument,                 *)
(*    pol |-> the AllocFunc set, hf |-> whether FreeFunc is set,           *)
(*    r |-> the result of the method].                                     *)
(***************************************************************************)
\* Positions and amounts: everything from below the list to beyond it.
IdxOf(l) == (0 - 1)..(l.len + 1)

Amounts == (0 - 1)..(MaxCap + 1)

\* Rotations reach both fast paths of fix and its fallback.
RotationsOf(l) == (0 - (2 * l.len + 1))..(2 * l.len + 1)

\* The values a caller inserts: 11, 12, ..., unlike any initial value.
InsSeqs == {[k \in 1..n |-> 10 + k] : n \in 0..MaxIns}

\* The policies that can change the outcome of a call whose result under
\* the default policy is r0: all of them when the call allocates, else none
\* is consulted.
PolsOf(r0) ==
  IF r0.allocs = <<>> THEN {<<"default", FALSE>>} ELSE Policies \X BOOLEAN

MkCall(i, j, vals, q, r) ==
  [i |-> i, j |-> j, vals |-> vals, pol |-> q[1], hf |-> q[2], r |-> r]

ReplaceCalls(l) ==
  UNION {{MkCall(a[1], a[2], a[3], q, Replace(l, a[1], a[2], a[3], q[1], q[2]))
            : q \in PolsOf(Replace(l, a[1], a[2], a[3], "default", FALSE))}
         : a \in IdxOf(l) \X IdxOf(l) \X InsSeqs}

InsertCalls(l) ==
  UNION {{MkCall(a[1], a[1], a[2], q, Insert(l, a[1], a[2], q[1], q[2]))
            : q \in PolsOf(Insert(l, a[1], a[2], "default", FALSE))}
         : a \in IdxOf(l) \X InsSeqs}

AppendCalls(l) ==
  UNION {{MkCall(l.len, l.len, v, q, ListAppend(l, v, q[1], q[2]))
            : q \in PolsOf(ListAppend(l, v, "default", FALSE))}
         : v \in InsSeqs}

DeleteCalls(l) ==
  UNION {{MkCall(a[1], a[2], <<>>, q, Delete(l, a[1], a[2], q[1], q[2]))
            : q \in PolsOf(Delete(l, a[1], a[2], "default", FALSE))}
         : a \in IdxOf(l) \X IdxOf(l)}

PushCalls(l) ==
  {MkCall(l.len, l.len, <<11>>, q, Push(l, 11, q[1], q[2]))
     : q \in PolsOf(Push(l, 11, "default", FALSE))}

PopCalls(l) ==
  {MkCall(0, 0, <<>>, q, Pop(l, q[1], q[2])) : q \in PolsOf(Pop(l, "default", FALSE))}

GrowCalls(l) ==
  UNION {{MkCall(n, 0 - 1, <<>>, q, Grow(l, n, q[1], q[2]))
            : q \in PolsOf(Grow(l, n, "default", FALSE))}
         : n \in Amounts}

GrowRangeCalls(l) ==
  UNION {{MkCall(a[1], a[2], <<>>, q, GrowRange(l, a[1], a[2], q[1], q[2]))
            : q \in PolsOf(GrowRange(l, a[1], a[2], "default", FALSE))}
         : a \in Amounts \X Amounts}

RotateCalls(l) ==
  {MkCall(n, 0, <<>>, <<"default", FALSE>>, Rotate(l, n)) : n \in RotationsOf(l)}

ClearCalls(l) == {MkCall(0, 0, <<>>, <<"default", FALSE>>, Clear(l))}

SwapOKCalls(l) ==
  {MkCall(a[1], a[2], <<>>, <<"default", FALSE>>, SwapOK(l, a[1], a[2]))
     : a \in IdxOf(l) \X IdxOf(l)}

\* The slices a caller hands to CopyTo hold 31, 32, ...
CopyToCalls(l) ==
  {MkCall(a[1], a[2], [k \in 1..a[3] |-> 30 + k], <<"default", FALSE>>,
          CopyTo(l, [k \in 1..a[3] |-> 30 + k], a[1], a[2]))
     : a \in IdxOf(l) \X IdxOf(l) \X (0..MaxIns)}

\* Every outcome of the random source for a shuffle of m + 1 elements:
\* rnd[k] in [0, k] for k in 1..m.
RECURSIVE ShuffleDraws(_)
ShuffleDraws(m) ==
  IF m < 1 THEN {<<>>}
  ELSE {Append(rnd, x) : rnd \in ShuffleDraws(m - 1), x \in 0..m}

ShuffleRangeCalls(l) ==
  UNION {{MkCall(a[1], a[2], rnd, <<"default", FALSE>>, ShuffleRange(l, a[1], a[2], rnd))
            : rnd \in ShuffleDraws(IF rngBound(l, a[1], a[2]) THEN a[2] - a[1] - 1 ELSE 0)}
         : a \in IdxOf(l) \X IdxOf(l)}

StringRangeCalls(l) ==
  {MkCall(a[1], a[2], <<>>, <<"default", FALSE>>, StringRange(l, a[1], a[2]))
     : a \in IdxOf(l) \X IdxOf(l)}

\* The JSON texts a caller hands to UnmarshalJSON: arrays of numbers, arrays
\* with a string or a null among the numbers, and texts that are no array.
ArrayDoc(items) ==
  <<LB>> \o [k \in 1..(2 * Len(items) - 1) |->
               IF k % 2 = 1 THEN items[(k + 1) \div 2] ELSE COMMA] \o <<RB>>

JsonDocs ==
  {<<>>, <<NULL>>, <<STR>>, <<Num(21)>>, <<LB>>, <<LB, RB>>, <<LB, COMMA, RB>>,
   <<LB, Num(21), RB, RB>>}
  \cup {ArrayDoc([k \in 1..n |-> Num(20 + k)]) : n \in 1..(MaxIns + 1)}
  \cup {ArrayDoc(<<Num(21), x>>) : x \in {STR, NULL}}
  \cup {ArrayDoc(<<x, Num(22)>>) : x \in {STR, NULL}}

UnmarshalJSONCalls(l) ==
  {MkCall(0, 0, a[1], <<"default", a[2]>>, UnmarshalJSON(l, a[1], a[2]))
     : a \in JsonDocs \X BOOLEAN}

(***************************************************************************)
(* The state machine of one List (part_000): New or NewN, then any         *)
(* sequence of Insert, Append, Delete, Replace, Push, Pop, Grow,           *)
(* GrowRange, Rotate, Clear and UnmarshalJSON, with any arguments.  It     *)
(* keeps no history: hist stays empty.  DoSwapOK is the step of SwapOK,    *)
(* which writes buffer slots only and changes nothing of the view.         *)
(***************************************************************************)
VARIABLES s, slen, len, back, panicked, hist

vars == <<s, slen, len, back, panicked, hist>>

\* The list held by the state.
L == MkList(s, slen, len, back)

\* The state after a method returned, or panicked, with result r.  No
\* buffer of the model is longer than MaxCap.
Step(r) ==
  /\ ~panicked
  /\ Len(r.l.s) <= MaxCap
  /\ s' = r.l.s
  /\ slen' = r.l.slen
  /\ len' = r.l.len
  /\ back' = r.l.back
  /\ panicked' = r.p
  /\ UNCHANGED hist

\* The slices a caller hands to New and NewN: distinct values, or zeroes.
InitBufs == {[k \in 1..c |-> k] : c \in 0..MaxCap} \cup {Zeros(c) : c \in 0..MaxCap}

Init ==
  /\ \E b \in InitBufs, bk \in (0 - 1)..(MaxCap + 1), n \in (0 - 1)..(MaxCap + 1) :
       LET r == NewN(b, bk, n) IN
       /\ r.ok
       /\ s = r.l.s /\ slen = r.l.slen /\ len = r.l.len /\ back = r.l.back
  /\ panicked = FALSE
  /\ hist = <<>>

DoInsert == \E c \in InsertCalls(L) : Step(c.r)

DoAppend == \E c \in AppendCalls(L) : Step(c.r)

DoDelete == \E c \in DeleteCalls(L) : Step(c.r)

DoReplace == \E c \in ReplaceCalls(L) : Step(c.r)

DoPush == \E c \in PushCalls(L) : Step(c.r)

DoPop == \E c \in PopCalls(L) : Step(c.r)

DoGrow == \E c \in GrowCalls(L) : Step(c.r)

DoGrowRange == \E c \in GrowRangeCalls(L) : Step(c.r)

DoRotate == \E c \in RotateCalls(L) : Step(c.r)

DoClear == \E c \in ClearCalls(L) : Step(c.r)

DoSwapOK == \E c \in SwapOKCalls(L) : Step(c.r)

DoUnmarshalJSON == \E c \in UnmarshalJSONCalls(L) : Step(c.r)

Next ==
  \/ DoInsert
  \/ DoAppend
  \/ DoDelete
  \/ DoReplace
  \/ DoPush
  \/ DoPop
  \/ DoGrow
  \/ DoGrowRange
  \/ DoRotate
  \/ DoClear
  \/ DoUnmarshalJSON

Spec == Init /\ [][Next]_vars

(***************************************************************************)
(* Properties of the List (part_000), checked under Spec.  A property of   *)
(* one call is stated for every call a caller can make in the state.       *)
(***************************************************************************)
\* The window the documentation describes: 0 <= len <= cap, the back offset
\* inside the buffer (0 when there is none), one slot for each index.
WellFormed(l) ==
  /\ 0 <= ListLen(l) /\ ListLen(l) <= Cap(l)
  /\ IF Cap(l) > 0 THEN 0 <= l.back /\ l.back < Cap(l) ELSE l.back = 0
  /\ \A a, b \in 0..(l.len - 1) : a # b => abs(l, a) # abs(l, b)

\* Every index of [0, Len()) read through Val is found, without a panic.
Readable(l) == \A k \in 0..(l.len - 1) : Val(l, k).ok

\* The logical sequence read through Val(0), ..., Val(Len()-1).
Logical(l) == [k \in 1..l.len |-> Val(l, k - 1).v]

\* old[0:i] ++ values ++ old[j:oldLen]
Spliced(old, i, j, vals) == SubSeq(old, 1, i) \o vals \o SubSeq(old, j + 1, Len(old))

\* C1: from every well-formed list (any back offset, wrapping or not), when
\* Replace(i, j, values...) with 0 <= i <= j <= Len() returns nil, the
\* sequence read through Val is old[0:i] ++ values ++ old[j:oldLen], on the
\* reallocating path and on the in-place path.
C1_ReplaceSplices ==
  (~panicked /\ WellFormed(L) /\ Readable(L)) =>
    \A c \in ReplaceCalls(L) :
      (rngBound(L, c.i, c.j) /\ c.r.err = "nil" /\ ~c.r.p) =>
        /\ Readable(c.r.l)
        /\ Logical(c.r.l) = Spliced(Logical(L), c.i, c.j, c.vals)

\* C2: after any sequence of New/NewN, Insert, Append, Delete, Replace, Push,
\* Pop, Grow, GrowRange, Rotate, Clear and UnmarshalJSON, whether a call
\* returned an error or not, the window is well formed.
C2_WindowWellFormed == ~panicked => WellFormed(L)

\* C3: Len() + Free() == Cap() after every public operation, from every
\* reachable state.
C3_LenPlusFreeIsCap == ListLen(L) + Free(L) = Cap(L)

\* C3's case: an operation returned and left elements in a list whose
\* capacity is not the length of its buffer.
C3_Witness == ~panicked /\ len > 0 /\ slen # Len(s)

\* The policies that honour their size contract: min <= len(slice), and
\* len(slice) <= max when max >= 0.
Honouring == {"default", "exact", "stale"}

\* C4: from every well-formed list, when Grow(n) with n >= 0 returns nil,
\* Free() >= n; when GrowRange(min, max) with 0 <= min <= max returns nil,
\* min <= Free() <= max; under every policy that honours its size contract.
C4_GrowEstablishesFree ==
  (~panicked /\ WellFormed(L)) =>
    /\ \A c \in GrowCalls(L) :
         (c.i >= 0 /\ c.pol \in Honouring /\ c.r.err = "nil" /\ ~c.r.p) =>
           Free(c.r.l) >= c.i
    /\ \A c \in GrowRangeCalls(L) :
         (0 <= c.i /\ c.i <= c.j /\ c.pol \in Honouring /\ c.r.err = "nil" /\ ~c.r.p) =>
           (c.i <= Free(c.r.l) /\ Free(c.r.l) <= c.j)

(***************************************************************************)
(* src/list/list.go, lines 549-1072: the revision of the List that         *)
(* src/list/heap.go is written against (InsertFront, PopFront, len).  Its  *)
(* list has no slen: the capacity is len(l.s), and the model keeps         *)
(* slen = Len(s).  The result of a method is the record                    *)
(*   [l |-> the list after, p |-> panicked, ret |-> the value returned,    *)
(*    ok |-> the boolean returned, vals |-> the argument slice after].     *)
(***************************************************************************)
MkListA(buf, length, bk) == MkList(buf, Len(buf), length, bk)

ResA(l, p, ret, ok, vals) == [l |-> l, p |-> p, ret |-> ret, ok |-> ok, vals |-> vals]

bound(l, i) == l > 0 /\ i >= 0 /\ i < l

boundRange(l, i, j) == bound(l, i) /\ bound(l + 1, j) /\ i <= j

\* absEl: ((i % l) + l) % l, an integer division by zero when l = 0.
absEl(l, i) ==
  IF l = 0 THEN [v |-> 0, p |-> TRUE]
  ELSE [v |-> GoMod(GoMod(i, l) + l, l), p |-> FALSE]

\* List.absEl: absEl(len(l.s), l.back + absEl(l.len, i)).
ListAbsEl(l, i) ==
  LET a == absEl(l.len, i) IN
  IF a.p THEN a ELSE absEl(Len(l.s), l.back + a.v)

NewNA(buf, bk, length) ==
  IF ~bound(Len(buf), bk) \/ ~bound(Len(buf) + 1, length)
  THEN [ok |-> FALSE, l |-> MkListA(<<>>, 0, 0)]
  ELSE [ok |-> TRUE, l |-> MkListA(buf, length, bk)]

\* wrapCopy of this revision: copy(s1[...], s2[...]) writes s1.  With
\* same = TRUE both arguments are one slice, and a chunk reads what the
\* chunks before it wrote.
RECURSIVE wrapCopyLoopA(_, _, _, _, _, _)
wrapCopyLoopA(s1, s2, same, i1, i2, left) ==
  IF ~(left > 0) THEN s1
  ELSE LET src == IF same THEN s1 ELSE s2
           copied == Min3(left, Len(s1) - i1, Len(src) - i2)
       IN wrapCopyLoopA(CopyInto(s1, src, i1, i2, copied), s2, same,
                        absEl(Len(s1), i1 + copied).v,
                        absEl(Len(src), i2 + copied).v, left - copied)

wrapCopyA(s1, s2, same, i1, i2, n) ==
  IF n < 1 THEN [s1 |-> s1, n |-> 0, p |-> FALSE]
  ELSE IF Len(s1) = 0 \/ Len(s2) = 0 THEN [s1 |-> s1, n |-> 0, p |-> TRUE]
  ELSE LET c == Min3(n, Len(s1), Len(s2))
       IN [s1 |-> wrapCopyLoopA(s1, s2, same, absEl(Len(s1), i1).v,
                                absEl(Len(s2), i2).v, c),
           n |-> c, p |-> FALSE]

RECURSIVE selfCopyRightLoopA(_, _, _, _, _)
selfCopyRightLoopA(buf, j0, targetJ0, n, copied0) ==
  IF ~(n > 0) THEN buf
  ELSE LET l == Len(buf)
           tm == GoMod(targetJ0 - copied0, l)
           targetJ == IF tm = 0 THEN l ELSE tm
           jm == GoMod(j0 - copied0, l)
           j == IF jm = 0 THEN l ELSE jm
           copied == Min3(j, targetJ, n)
       IN selfCopyRightLoopA(
            CopyInto(buf, buf, targetJ - copied, j - copied, copied),
            j, targetJ, n - copied, copied)

selfWrapCopyA(buf, i, n, m) ==
  LET l == Len(buf) IN
  IF n < 1 \/ n >= l \/ m >= l THEN buf
  ELSE LET i1 == absEl(l, i).v
           targetI == absEl(l, i1 + m).v
       IN IF targetI < i1 THEN wrapCopyA(buf, buf, TRUE, i1, targetI, n).s1
          ELSE selfCopyRightLoopA(buf, i1 + n, targetI + n, n, 0)

RECURSIVE wrapClearLoopA(_, _, _, _)
wrapClearLoopA(buf, i, cleared, left) ==
  IF ~(left > 0) THEN buf
  ELSE LET j == Min2(i + left, Len(buf))
           c == cleared + (j - i)
       IN wrapClearLoopA(ClearSlice(buf, i, j), absEl(Len(buf), i + c).v, c, left - c)

wrapClearA(buf, i, n) ==
  LET i1 == IF n < 0 THEN i + n ELSE i
      n1 == IF n < 0 THEN 0 - n ELSE n
  IN IF n1 >= Len(buf) THEN Zeros(Len(buf))
     ELSE wrapClearLoopA(buf, absEl(Len(buf), i1).v, 0, n1)

(***************************************************************************)
(* The AllocFunc of a call on this revision (an exported field):           *)
(*   "default":  AllocFunc is nil, AllocDouble makes 2 * needCap zeroes;   *)
(*   "recycled": a slice of needCap elements taken from a pool, still      *)
(*               holding the values MaxVal, 1, MaxVal, 1, ...;             *)
(*   "short":    a slice one element short of needCap.                     *)
(***************************************************************************)
PoliciesA == {"default", "recycled", "short"}

AllocDouble(needCap) == Zeros(needCap * 2)

Recycled(n) == [k \in 1..n |-> IF k % 2 = 1 THEN MaxVal ELSE 1]

\* List.alloc panics when the slice is shorter than needCap.
allocA(pol, needCap) ==
  LET buf == CASE pol = "default" -> AllocDouble(needCap)
               [] pol = "recycled" -> Recycled(needCap)
               [] OTHER -> Zeros(IF needCap > 0 THEN needCap - 1 ELSE 0)
  IN [s |-> buf, p |-> Len(buf) < needCap]

\* numEls: n % l.len when n > 0, an integer division by zero when l.len = 0.
numEls(l, n) ==
  IF n > 0
  THEN IF l.len = 0 THEN [v |-> 0, p |-> TRUE] ELSE [v |-> GoMod(n, l.len), p |-> FALSE]
  ELSE [v |-> 0, p |-> FALSE]

\* ReplaceN, reallocating.  l.free() touches only the slice it releases.
ReplaceNRealloc(l, i, vals, frontEls, needCap, pol) ==
  LET a == allocA(pol, needCap) IN
  IF a.p THEN ResA(l, TRUE, 0, FALSE, vals)
  ELSE LET c1 == wrapCopyA(l.s, a.s, FALSE, l.back, 0, i)
           c2 == wrapCopyA(vals, a.s, FALSE, 0, i, Len(vals))
           l1 == [l EXCEPT !.s = c1.s1]
           ae == ListAbsEl(l1, 0 - frontEls)
           c3 == wrapCopyA(l1.s, a.s, FALSE, ae.v, i + Len(vals), frontEls)
       IN IF c1.p THEN ResA(l, TRUE, 0, FALSE, vals)
          ELSE IF c2.p \/ ae.p \/ c3.p THEN ResA(l1, TRUE, 0, FALSE, c2.s1)
          ELSE ResA(MkListA(a.s, needCap, 0), FALSE, needCap, TRUE, c2.s1)

\* ReplaceN, in place.
ReplaceNInPlace(l, i, n, vals, frontEls, needCap) ==
  LET ls == Len(vals)
      balloonOffset == n - ls
      backPart == i < frontEls
      s1 == IF backPart THEN selfWrapCopyA(l.s, l.back, i, balloonOffset)
            ELSE selfWrapCopyA(l.s, i + n, frontEls, balloonOffset)
      ab == IF backPart THEN ListAbsEl(l, balloonOffset)
            ELSE ListAbsEl(l, l.len - balloonOffset)
      l1 == [l EXCEPT !.s = s1, !.back = IF backPart THEN ab.v ELSE l.back]
      balloonStart == IF backPart THEN l.back ELSE ab.v
  IN IF ab.p THEN ResA([l EXCEPT !.s = s1], TRUE, 0, FALSE, vals)
     ELSE LET s2 == IF balloonOffset > 0 THEN wrapClearA(s1, balloonStart, balloonOffset)
                    ELSE s1
              l2 == [l1 EXCEPT !.s = s2]
              ai == ListAbsEl(l2, i)
              c == wrapCopyA(vals, s2, FALSE, 0, ai.v, ls)
          IN IF ai.p \/ c.p THEN ResA(l2, TRUE, 0, FALSE, vals)
             ELSE ResA([l2 EXCEPT !.len = needCap], FALSE, needCap, TRUE, c.s1)

ReplaceN(l, i, n, vals, pol) ==
  IF ~bound(l.len + 1, i) THEN ResA(l, FALSE, 0, FALSE, vals)
  ELSE LET ne == numEls(l, n) IN
       IF ne.p THEN ResA(l, TRUE, 0, FALSE, vals)
       ELSE LET n1 == Min2(l.len - i, ne.v) IN
            IF n1 < 1 /\ Len(vals) = 0 THEN ResA(l, FALSE, 0, FALSE, vals)
            ELSE LET frontEls == l.len - i - n1
                     needCap == i + Len(vals) + frontEls
                 IN IF Len(l.s) < needCap
                    THEN ReplaceNRealloc(l, i, vals, frontEls, needCap, pol)
                    ELSE ReplaceNInPlace(l, i, n1, vals, frontEls, needCap)

InsertFront(l, vals, pol) == ReplaceN(l, l.len, 0, vals, pol)

\* Delete returns oldLen - l.len.
Deleted(oldLen, r) == [r EXCEPT !.ret = oldLen - r.l.len]

DeleteA(l, i, j) ==
  IF ~boundRange(l.len, i, j) \/ i = j THEN ResA(l, FALSE, 0, FALSE, <<>>)
  ELSE Deleted(l.len, ReplaceN(l, i, j - i, <<>>, "default"))

DeleteN(l, i, n) == DeleteA(l, i, i + n)

ValA(l, i) ==
  IF bound(l.len, i)
  THEN LET a == ListAbsEl(l, i)
           x == Index(l.s, a.v)
       IN [v |-> x.v, ok |-> ~(a.p \/ x.p), p |-> a.p \/ x.p]
  ELSE [v |-> Zero, ok |-> FALSE, p |-> FALSE]

AtA(l, i) == ValA(l, i).v

PopAt(l, i) ==
  LET x == ValA(l, i) IN
  IF x.p THEN ResA(l, TRUE, Zero, FALSE, <<>>)
  ELSE IF x.ok THEN [DeleteN(l, i, 1) EXCEPT !.ret = x.v, !.ok = TRUE]
  ELSE ResA(l, FALSE, Zero, FALSE, <<>>)

PopFront(l) == PopAt(l, l.len - 1)

SwapOKA(l, i, j) ==
  IF i = j \/ ~bound(l.len, i) \/ ~bound(l.len, j) THEN ResA(l, FALSE, 0, FALSE, <<>>)
  ELSE LET a == ListAbsEl(l, i).v
           b == ListAbsEl(l, j).v
       IN ResA([l EXCEPT !.s = [l.s EXCEPT ![a + 1] = l.s[b + 1], ![b + 1] = l.s[a + 1]]],
               FALSE, 0, TRUE, <<>>)

SwapA(l, i, j) == SwapOKA(l, i, j).l

(***************************************************************************)
(* src/list/ordered.go and src/list/heap.go over this revision.  The       *)
(* elements are integers and the CompareFunc is their three-way            *)
(* comparison.  up, down and the bodies of HeapInit, HeapFix, HeapPush and *)
(* HeapPop are those of container/heap, which heap.go calls.               *)
(***************************************************************************)
cmp(x, y) == IF x < y THEN 0 - 1 ELSE IF x > y THEN 1 ELSE 0

\* Ordered.Less: o.cmp(o.At(i), o.At(j)) < 0.
LessA(l, i, j) == cmp(AtA(l, i), AtA(l, j)) < 0

RECURSIVE up(_, _)
up(l, j) ==
  LET i == GoDiv(j - 1, 2) IN
  IF i = j \/ ~LessA(l, j, i) THEN l ELSE up(SwapA(l, i, j), i)

RECURSIVE downLoop(_, _, _)
downLoop(l, i, n) ==
  LET j1 == 2 * i + 1 IN
  IF j1 >= n \/ j1 < 0 THEN [l |-> l, i |-> i]
  ELSE LET j2 == j1 + 1
           j == IF j2 < n /\ LessA(l, j2, j1) THEN j2 ELSE j1
       IN IF ~LessA(l, j, i) THEN [l |-> l, i |-> i]
          ELSE downLoop(SwapA(l, i, j), j, n)

down(l, i0, n) ==
  LET d == downLoop(l, i0, n) IN [l |-> d.l, moved |-> d.i > i0]

RECURSIVE heapInitLoop(_, _, _)
heapInitLoop(l, i, n) ==
  IF i < 0 THEN l ELSE heapInitLoop(down(l, i, n).l, i - 1, n)

\* Heap.Init: heap.Init.
HeapInit(l) == heapInitLoop(l, GoDiv(l.len, 2) - 1, l.len)

\* Heap.Fix: heap.Fix.
HeapFix(l, i) ==
  LET d == down(l, i, l.len) IN IF ~d.moved THEN up(d.l, i) ELSE d.l

\* Heap.Push: heap.Push calls heapInterface.Push (InsertFront), then up.
HeapPush(l, v, pol) ==
  LET r == InsertFront(l, <<v>>, pol) IN
  IF r.p THEN r ELSE [r EXCEPT !.l = up(r.l, r.l.len - 1)]

\* Heap.Pop: heap.Pop swaps the root to the end, sifts down and calls
\* heapInterface.Pop (PopFront); x.(T) gives ok = true.
Asserted(r) == [r EXCEPT !.ok = ~r.p]

HeapPop(l) ==
  IF l.len = 0 THEN ResA(l, FALSE, Zero, FALSE, <<>>)
  ELSE Asserted(PopFront(down(SwapA(l, 0, l.len - 1), 0, l.len - 1).l))

(***************************************************************************)
(* The state machine of one Heap.  hist is the record                      *)
(*   [valid |-> Init has run, and only heap methods since,                 *)
(*    run |-> only Pops have been called since the last Init,              *)
(*    base |-> the elements the last Init found, while run,                *)
(*    pops |-> the <<v, ok>> of the Pops of the run, at most Len(base)].   *)
(***************************************************************************)
\* The logical sequence of a list of this revision.
LogicalA(l) == [k \in 1..l.len |-> AtA(l, k - 1)]

Hist(valid, run, base, pops) ==
  [valid |-> valid, run |-> run, base |-> base, pops |-> pops]

\* The slices a caller builds a list from: every content over 1..MaxVal.
RECURSIVE SeqsOf(_, _)
SeqsOf(V, n) ==
  IF n = 0 THEN {<<>>} ELSE {Append(q, v) : q \in SeqsOf(V, n - 1), v \in V}

ValueBufs == UNION {SeqsOf(1..MaxVal, c) : c \in 1..MaxCap}

\* A buffer of the heap's list holds at most MaxCap + 1 elements.
StepHeap(r, h) ==
  /\ ~panicked
  /\ Len(r.l.s) <= MaxCap + 1
  /\ s' = r.l.s
  /\ slen' = r.l.slen
  /\ len' = r.l.len
  /\ back' = r.l.back
  /\ panicked' = r.p
  /\ hist' = h

InitHeap ==
  /\ \/ \E b \in ValueBufs, bk \in 0..MaxCap, n \in 0..MaxCap :
          LET r == NewNA(b, bk, n) IN
          /\ r.ok
          /\ s = r.l.s /\ slen = r.l.slen /\ len = r.l.len /\ back = r.l.back
     \/ /\ s = <<>> /\ slen = 0 /\ len = 0 /\ back = 0
  /\ panicked = FALSE
  /\ hist = Hist(FALSE, FALSE, <<>>, <<>>)

\* l.Heap(cmp), o.Heap() or h.Init().
StepInit(l1) ==
  StepHeap(ResA(l1, FALSE, 0, TRUE, <<>>), Hist(TRUE, TRUE, LogicalA(l1), <<>>))

DoHeapInit == ~panicked /\ StepInit(HeapInit(L))

DoHeapPush ==
  /\ hist.valid
  /\ \E v \in 1..MaxVal, pol \in PoliciesA :
       StepHeap(HeapPush(L, v, pol), Hist(TRUE, FALSE, <<>>, <<>>))

\* The history after a Pop with result r.
Popped(r) ==
  IF hist.run /\ Len(hist.pops) < Len(hist.base) /\ ~r.p
  THEN [hist EXCEPT !.pops = Append(@, <<r.ret, r.ok>>)]
  ELSE Hist(TRUE, FALSE, <<>>, <<>>)

StepPop(r) == StepHeap(r, Popped(r))

DoHeapPop == hist.valid /\ StepPop(HeapPop(L))

\* The element at index i is given the value v through the shared list, and
\* then Fix(i) is called.
DoHeapFix ==
  /\ hist.valid
  /\ \E i \in 0..(len - 1), v \in 0..MaxVal :
       LET changed == [L EXCEPT !.s[ListAbsEl(L, i).v + 1] = v] IN
       StepHeap(ResA(HeapFix(changed, i), FALSE, 0, TRUE, <<>>),
                Hist(TRUE, FALSE, <<>>, <<>>))

\* List.Clear of this revision.
ClearA(l) ==
  IF l.len = 0 THEN l
  ELSE [l EXCEPT !.s = wrapClearA(l.s, l.back, l.len), !.back = 0, !.len = 0]

\* The loop of List.UnmarshalJSON over the scalars of the array: an element
\* that is not a number fails to decode (null decodes to the zero value),
\* every other one is given to InsertFront, whose result is r.
RECURSIVE decodeLoopA(_, _, _), decodeNextA(_, _, _)
decodeNextA(r, items, pol) ==
  IF r.p THEN [l |-> r.l, err |-> "nil", p |-> TRUE]
  ELSE decodeLoopA(r.l, items, pol)

decodeLoopA(l, items, pol) ==
  IF Len(items) = 0 THEN [l |-> l, err |-> "nil", p |-> FALSE]
  ELSE IF Head(items).t = "str" THEN [l |-> l, err |-> "decode", p |-> FALSE]
  ELSE decodeNextA(InsertFront(l, <<Head(items).v>>, pol), Tail(items), pol)

\* List.UnmarshalJSON of this revision, on a valid text.
UnmarshalJSONA(l, d, pol) ==
  IF d[1] # LB THEN [l |-> ClearA(l), err |-> "unexpected token", p |-> FALSE]
  ELSE decodeLoopA(ClearA(l), JsonItems(d), pol)

\* json.Unmarshal(b, l.List): checks the text and calls List.UnmarshalJSON.
JsonUnmarshalA(l, d, pol) ==
  IF JsonValid(d) THEN UnmarshalJSONA(l, d, pol)
  ELSE [l |-> l, err |-> "SyntaxError", p |-> FALSE]

\* l.Init() and return err, after a json.Unmarshal with the result u.
InitAndReturn(u) ==
  IF u.p THEN [u EXCEPT !.err = "panic"] ELSE [u EXCEPT !.l = HeapInit(u.l)]

HeapUnmarshalJSON(l, d, pol) == InitAndReturn(JsonUnmarshalA(l, d, pol))

\* The decoding error json.Unmarshal reports for a text.
DecodeError(d) ==
  IF ~JsonValid(d) THEN "SyntaxError"
  ELSE IF d[1] # LB THEN "unexpected token"
  ELSE IF \E k \in 1..Len(d) : d[k] = STR THEN "decode" ELSE "nil"

HeapUnmarshalJSONCalls(l) ==
  {[d |-> a[1], pol |-> a[2], r |-> HeapUnmarshalJSON(l, a[1], a[2])]
     : a \in JsonDocs \X PoliciesA}

DoHeapUnmarshalJSON ==
  /\ ~panicked
  /\ \E c \in HeapUnmarshalJSONCalls(L) :
       StepHeap(ResA(c.r.l, c.r.p, 0, c.r.err = "nil", <<>>),
                IF c.r.p THEN hist ELSE Hist(TRUE, TRUE, LogicalA(c.r.l), <<>>))

NextHeap ==
  \/ DoHeapInit
  \/ DoHeapPush
  \/ DoHeapPop
  \/ DoHeapFix
  \/ DoHeapUnmarshalJSON

SpecHeap == InitHeap /\ [][NextHeap]_vars

(***************************************************************************)
(* Properties of the Heap, checked under SpecHeap.                         *)
(***************************************************************************)
\* cmp(element at (i-1)/2, element at i) <= 0 for every index i in [1, Len()).
HeapInvariant(l) ==
  \A i \in 1..(l.len - 1) : cmp(AtA(l, (i - 1) \div 2), AtA(l, i)) <= 0

\* The number of elements of q equal to v.
RECURSIVE Count(_, _)
Count(q, v) ==
  IF Len(q) = 0 THEN 0 ELSE (IF Head(q) = v THEN 1 ELSE 0) + Count(Tail(q), v)

SameMultiset(p, q) ==
  /\ Len(p) = Len(q)
  /\ \A k \in 1..Len(p) : Count(p, p[k]) = Count(q, p[k])

NonDecreasing(q) == \A k \in 1..(Len(q) - 1) : cmp(q[k], q[k + 1]) <= 0

\* The values the Pops of the run returned.
PoppedValues == [k \in 1..Len(hist.pops) |-> hist.pops[k][1]]

\* C5: after Init() over N elements and N calls of Pop(), every Pop returned
\* (v, true), the values returned are in non-decreasing order and are the
\* multiset of the N elements, and Len() == 0.
C5_InitThenPopsSorts ==
  (~panicked /\ hist.run /\ Len(hist.pops) = Len(hist.base)) =>
    /\ \A k \in 1..Len(hist.pops) : hist.pops[k][2]
    /\ NonDecreasing(PoppedValues)
    /\ SameMultiset(PoppedValues, hist.base)
    /\ ListLen(L) = 0

\* C6: after Init() on any list content, and after every Push, Pop and
\* Fix(i) (after the value at i was changed) on a heap on which the
\* invariant held, the binary-heap invariant holds, whatever the back offset.
C6_HeapInvariantKept == (~panicked /\ hist.valid) => HeapInvariant(L)

\* C7: Pop() on a non-empty heap returns ok and makes Len() exactly one less,
\* also when Len() == 1; Pop() on an empty heap returns (zero value, false)
\* and leaves the heap unchanged.
C7_PopRemovesOne ==
  (~panicked /\ hist.valid) =>
    IF ListLen(L) > 0
    THEN ~HeapPop(L).p /\ HeapPop(L).ok /\ ListLen(HeapPop(L).l) = ListLen(L) - 1
    ELSE HeapPop(L) = ResA(L, FALSE, Zero, FALSE, <<>>)

(***************************************************************************)
(* src/list/ordered.go over part_000.  slices.SortFunc, SortStableFunc,    *)
(* sort.Sort and sort.Stable are insertion sorts on the lengths of the     *)
(* model (at most 12 elements); sort.Find is a binary search.              *)
(***************************************************************************)
\* Ordered.Less: o.cmp(o.At(i), o.At(j)) < 0.
Less(l, i, j) == cmp(At(l, i).v, At(l, j).v) < 0

\* data[i], data[j] = data[j], data[i] on a slice (offsets from 0).
SwapSlice(data, i, j) == [data EXCEPT ![i + 1] = data[j + 1], ![j + 1] = data[i + 1]]

\* The same loop with the operands of the comparison exchanged.
RECURSIVE insertCmpFuncSwapped(_, _)
insertCmpFuncSwapped(data, j) ==
  IF j > 0 /\ cmp(data[j], data[j + 1]) < 0
  THEN insertCmpFuncSwapped(SwapSlice(data, j, j - 1), j - 1)
  ELSE data

\* for j := i; j > 0 && cmp(data[j], data[j-1]) < 0; j-- { swap }
RECURSIVE insertCmpFunc(_, _)
insertCmpFunc(data, j) ==
  IF j > 0 /\ cmp(data[j + 1], data[j]) < 0
  THEN insertCmpFunc(SwapSlice(data, j, j - 1), j - 1)
  ELSE data

RECURSIVE insertionSortCmpFunc(_, _)
insertionSortCmpFunc(data, i) ==
  IF i < Len(data) THEN insertionSortCmpFunc(insertCmpFunc(data, i), i + 1) ELSE data

\* for j := i; j > 0 && data.Less(j, j-1); j-- { data.Swap(j, j-1) }
RECURSIVE insert(_, _)
insert(l, j) ==
  IF j > 0 /\ Less(l, j, j - 1) THEN insert(Swap(l, j, j - 1).l, j - 1) ELSE l

RECURSIVE insertionSort(_, _)
insertionSort(l, i) ==
  IF i < l.len THEN insertionSort(insert(l, i), i + 1) ELSE l

\* o.s[o.back:o.back+o.len]
Window(l) == SubSeq(l.s, l.back + 1, l.back + l.len)

\* The buffer with its window replaced by w.
WithWindow(l, w) ==
  [l EXCEPT !.s = [k \in 1..Len(l.s) |->
                     IF l.back < k /\ k <= l.back + l.len THEN w[k - l.back] ELSE l.s[k]]]

Sort(l) ==
  IF ~wraps(l) THEN WithWindow(l, insertionSortCmpFunc(Window(l), 1))
  ELSE insertionSort(l, 1)

SortStable(l) ==
  IF ~wraps(l) THEN WithWindow(l, insertionSortCmpFunc(Window(l), 1))
  ELSE insertionSort(l, 1)

IsSorted(l) ==
  IF ~wraps(l)
  THEN \A i \in 1..(l.len - 1) : ~(cmp(Window(l)[i + 1], Window(l)[i]) < 0)
  ELSE \A i \in 1..(l.len - 1) : ~Less(l, i, i - 1)

\* sort.Find(n, f) with f(i) = o.cmp(o.At(i), v).
RECURSIVE findLoop(_, _, _, _)
findLoop(l, v, i, j) ==
  IF ~(i < j) THEN i
  ELSE LET h == (i + j) \div 2 IN
       IF cmp(At(l, h).v, v) > 0 THEN findLoop(l, v, h + 1, j)
       ELSE findLoop(l, v, i, h)

Found(l, v, i) == [i |-> i, found |-> i < l.len /\ cmp(At(l, i).v, v) = 0]

Find(l, v) == Found(l, v, findLoop(l, v, 0, l.len))

(***************************************************************************)
(* The state machine of one Ordered.  hist is the record                   *)
(*   [op |-> the method called last, before |-> the list it was called on, *)
(*    arg |-> its argument, ret |-> what it returned].                     *)
(***************************************************************************)
Called(op, before, arg, ret) == [op |-> op, before |-> before, arg |-> arg, ret |-> ret]

StepOrd(l, h) ==
  /\ ~panicked
  /\ s' = l.s
  /\ slen' = l.slen
  /\ len' = l.len
  /\ back' = l.back
  /\ panicked' = FALSE
  /\ hist' = h

InitOrd ==
  /\ \E b \in ValueBufs \cup {<<>>}, bk \in 0..MaxCap, n \in 0..MaxCap :
       LET r == NewN(b, bk, n) IN
       /\ r.ok
       /\ s = r.l.s /\ slen = r.l.slen /\ len = r.l.len /\ back = r.l.back
  /\ panicked = FALSE
  /\ hist = Called("New", MkList(<<>>, 0, 0, 0), 0, 0)

DoSort == ~panicked /\ StepOrd(Sort(L), Called("Sort", L, 0, 0))

DoSortStable == ~panicked /\ StepOrd(SortStable(L), Called("SortStable", L, 0, 0))

DoIsSorted == ~panicked /\ StepOrd(L, Called("IsSorted", L, 0, IsSorted(L)))

DoFind == ~panicked /\ \E v \in 0..(MaxVal + 1) : StepOrd(L, Called("Find", L, v, Find(L, v)))

NextOrd ==
  \/ DoSort
  \/ DoSortStable
  \/ DoIsSorted
  \/ DoFind

SpecOrd == InitOrd /\ [][NextOrd]_vars

(***************************************************************************)
(* Properties of the Ordered, checked under SpecOrd.                       *)
(***************************************************************************)
\* C8: after Sort() and after SortStable(), IsSorted() returns true and the
\* logical sequence is a permutation of the one before the call, whether
\* the window was contiguous or wrapped around the end of the buffer.
C8_SortSorts ==
  hist.op \in {"Sort", "SortStable"} =>
    /\ IsSorted(L)
    /\ SameMultiset(Logical(L), Logical(hist.before))

\* C9: Sort() on a list whose logical sequence is sorted leaves the logical
\* sequence unchanged, and a second Sort() changes nothing after a first.
C9_SortIdempotent ==
  hist.op = "Sort" =>
    /\ NonDecreasing(Logical(hist.before)) => Logical(L) = Logical(hist.before)
    /\ Logical(Sort(L)) = Logical(L)

\* C9's case: Sort() has run on a sorted list of two or more elements that
\* are not all equal, held in a contiguous window.
C9_Witness ==
  /\ hist.op = "Sort"
  /\ NonDecreasing(Logical(hist.before))
  /\ len >= 2
  /\ Logical(L)[1] < Logical(L)[len]
  /\ ~wraps(L)

\* The smallest logical index whose element is >= v, Len() when none is.
LowerBound(q, v) ==
  IF \E k \in 1..Len(q) : cmp(q[k], v) >= 0
  THEN (CHOOSE k \in 1..Len(q) :
          /\ cmp(q[k], v) >= 0
          /\ \A m \in 1..(k - 1) : cmp(q[m], v) < 0) - 1
  ELSE Len(q)

\* C10: on a list sorted ascending, Find(v) returns the smallest logical
\* index i whose element is >= v (Len() when there is none), and found is
\* true exactly when i < Len() and the element at i equals v.
C10_FindLowerBound ==
  (hist.op = "Find" /\ NonDecreasing(Logical(L))) =>
    /\ hist.ret.i = LowerBound(Logical(L), hist.arg)
    /\ hist.ret.found <=>
         (hist.ret.i < len /\ cmp(Logical(L)[hist.ret.i + 1], hist.arg) = 0)

(***************************************************************************)
(* Properties of the List (part_000) reads, rotation and swaps, checked    *)
(* under Spec.  Back() is At(0) and Front() is At(-1).                     *)
(***************************************************************************)
\* C11: on a non-empty well-formed list with any back offset, for every
\* integer i (negative, in range, or >= Len()) At(i) returns Val(i mod Len())
\* with the modulo non-negative, so Back() = Val(0) and Front() = Val(Len()-1);
\* Val(i) returns (zero, false) for every i outside [0, Len()); on an empty
\* list At returns the zero value.
C11_AtIsValModLen ==
  (~panicked /\ WellFormed(L) /\ Readable(L)) =>
    /\ len > 0 =>
         /\ \A i \in RotationsOf(L) :
              /\ ~At(L, i).p
              /\ At(L, i).v = Val(L, i % len).v
         /\ At(L, 0).v = Val(L, 0).v
         /\ At(L, 0 - 1).v = Val(L, len - 1).v
    /\ \A i \in RotationsOf(L) :
         ~(0 <= i /\ i < len) => (Val(L, i).v = Zero /\ ~Val(L, i).ok /\ ~Val(L, i).p)
    /\ len = 0 => \A i \in RotationsOf(L) : At(L, i) = [v |-> Zero, p |-> FALSE]

\* C12: on a well-formed list of length Len() > 0, whatever its capacity and
\* back offset, after Rotate(n) for any integer n the element at logical
\* index k is the element that was at logical index (k + n) mod Len() before
\* the call, for every k in [0, Len()); the length is kept.
C12_RotateShiftsOrigin ==
  (~panicked /\ WellFormed(L) /\ Readable(L) /\ len > 0) =>
    \A c \in RotateCalls(L) :
      /\ ~c.r.p
      /\ c.r.l.len = len
      /\ Readable(c.r.l)
      /\ \A k \in 0..(len - 1) :
           Val(c.r.l, k).v = Val(L, (k + c.i) % len).v

\* C13: on a well-formed list, for i and j both in [0, Len()) with i # j,
\* SwapOK(i, j) returns (true, nil) and exchanges the elements at logical
\* positions i and j, leaving every other logical position, Len(), Cap() and
\* the back offset unchanged; for i = j in range it returns (false, nil) and
\* changes nothing.
C13_SwapOKExchanges ==
  (~panicked /\ WellFormed(L) /\ Readable(L)) =>
    \A c \in SwapOKCalls(L) :
      (0 <= c.i /\ c.i < len /\ 0 <= c.j /\ c.j < len) =>
        /\ ~c.r.p
        /\ c.r.err = "nil"
        /\ c.r.ret = (c.i # c.j)
        /\ c.r.l.len = len /\ c.r.l.slen = slen /\ c.r.l.back = back
        /\ \A k \in 0..(len - 1) :
             Val(c.r.l, k).v =
               Val(L, IF k = c.i THEN c.j ELSE IF k = c.j THEN c.i ELSE k).v
        /\ c.i = c.j => c.r.l = L

\* C14: on a well-formed list SwapOK(i, j) returns ErrInvalidPosition exactly
\* when i or j lies outside [0, Len()), and then the list is unchanged; it
\* reports no error when both indices are in range.
C14_SwapOKErrorIffOutside ==
  (~panicked /\ WellFormed(L)) =>
    \A c \in SwapOKCalls(L) :
      /\ ~c.r.p
      /\ (c.r.err = "ErrInvalidPosition") <=>
           ~(0 <= c.i /\ c.i < len /\ 0 <= c.j /\ c.j < len)
      /\ c.r.err # "nil" => c.r.l = L


(***************************************************************************)
(* Properties of the List (part_000) error handling.  C16, which is about  *)
(* the content of the buffer, is checked under Spec, whose buffers hold    *)
(* values; C15 and C17, which are about lengths and sizes, under SpecZero, *)
(* whose lists reach every length up to MaxCapZero.                        *)
(***************************************************************************)
\* C15: in every reachable state Replace(i, j, ...) and Delete(i, j) return
\* ErrInvalidRange if and only if not (0 <= i <= j <= Len()), and
\* Insert(i, ...) returns ErrInvalidPosition if and only if not
\* (0 <= i <= Len()); Replace(0, 0, ...) and Insert(0, ...) on an empty list
\* and Insert(Len(), ...) on any list pass the validation.
C15_RangeErrors ==
  /\ \A c \in ReplaceCalls(L) :
       /\ (c.r.err = "ErrInvalidRange") <=> ~(0 <= c.i /\ c.i <= c.j /\ c.j <= len)
       /\ (len = 0 /\ c.i = 0 /\ c.j = 0) => c.r.err # "ErrInvalidRange"
  /\ \A c \in DeleteCalls(L) :
       (c.r.err = "ErrInvalidRange") <=> ~(0 <= c.i /\ c.i <= c.j /\ c.j <= len)
  /\ \A c \in InsertCalls(L) :
       /\ (c.r.err = "ErrInvalidPosition") <=> ~(0 <= c.i /\ c.i <= len)
       /\ c.r.err # "ErrInvalidRange"
       /\ (c.i = len \/ (len = 0 /\ c.i = 0)) => c.r.err # "ErrInvalidPosition"

\* C15's case: a list that holds elements below its capacity, on which a
\* Replace is refused for its range, an Insert is refused for its position
\* and an Insert at Len() of one value or more returns nil.
C15_Witness ==
  /\ ~panicked /\ 0 < len /\ len < slen
  /\ \E c \in ReplaceCalls(L) : c.i > c.j /\ c.r.err = "ErrInvalidRange"
  /\ \E c \in InsertCalls(L) : c.i > len /\ c.r.err = "ErrInvalidPosition"
  /\ \E c \in InsertCalls(L) : c.i = len /\ c.vals # <<>> /\ c.r.err = "nil" /\ ~c.r.p

\* The errors of argument validation.
ValidationErrors == {"ErrInvalidPosition", "ErrInvalidRange", "ErrInvalidAmount"}

\* Every call of the set that returned a validation error left the list as
\* it was and invoked neither policy.
Untouched(l, calls) ==
  \A c \in calls :
    c.r.err \in ValidationErrors =>
      /\ ~c.r.p
      /\ c.r.l = l
      /\ c.r.allocs = <<>>
      /\ c.r.freed = <<>>

\* C16: in every reachable state, whenever SwapOK, Insert, Replace, Delete,
\* Grow, GrowRange, CopyTo, ShuffleRange or StringRange returns
\* ErrInvalidPosition, ErrInvalidRange or ErrInvalidAmount, the buffer, the
\* back offset, Len() and Cap() are what they were before the call, and
\* neither the allocation policy nor the release policy was invoked.
C16_ValidateThenMutate ==
  ~panicked =>
    /\ Untouched(L, SwapOKCalls(L))
    /\ Untouched(L, InsertCalls(L))
    /\ Untouched(L, ReplaceCalls(L))
    /\ Untouched(L, DeleteCalls(L))
    /\ Untouched(L, GrowCalls(L))
    /\ Untouched(L, GrowRangeCalls(L))
    /\ Untouched(L, CopyToCalls(L))
    /\ Untouched(L, ShuffleRangeCalls(L))
    /\ Untouched(L, StringRangeCalls(L))

\* C16's case: a list of non-zero elements on which each of the three
\* errors is returned, one of them by CopyTo into a slice that has room.
C16_Witness ==
  /\ ~panicked /\ len > 0
  /\ \E k \in 1..Len(s) : s[k] # Zero
  /\ \E c \in CopyToCalls(L) : c.vals # <<>> /\ c.r.err = "ErrInvalidRange"
  /\ \E c \in GrowRangeCalls(L) : c.r.err = "ErrInvalidAmount"
  /\ \E c \in SwapOKCalls(L) : c.r.err = "ErrInvalidPosition"
  /\ \E c \in ShuffleRangeCalls(L) : c.r.err = "ErrInvalidRange"

\* The allocation policy of call c broke its size contract for the request
\* <<min, max>>: a slice shorter than min, or longer than max when max >= 0.
SizeViolation(c) ==
  LET min == c.r.allocs[1][1]
      max == c.r.allocs[1][2]
      ls == Len(AllocFuncOf(c.pol, min, max))
  IN ls < min \/ (max >= 0 /\ ls > max)

\* Every call of the set that asked the allocation policy for a buffer and
\* got an error or a slice of the wrong size returned an error and left the
\* list alone; every other slice was accepted.
AllocChecked(l, calls) ==
  \A c \in calls :
    c.r.allocs # <<>> =>
      IF c.pol = "error" \/ SizeViolation(c)
      THEN /\ c.r.err = (IF c.pol = "error" THEN "ErrAlloc" ELSE "ErrInvalidAllocation")
           /\ ~c.r.p
           /\ c.r.l = l
           /\ c.r.freed = <<>>
      ELSE c.r.err = "nil"

\* C17: in every reachable state, when Replace, Insert, Append, Delete, Grow
\* or GrowRange asks the allocation policy for a buffer and the policy
\* returns an error, or a slice shorter than min, or longer than max when
\* max >= 0, the operation returns the policy's error, or
\* ErrInvalidAllocation for a size violation, and leaves the buffer, the
\* back offset and Len() unchanged without invoking the release policy; a
\* slice of any length >= min is accepted when max is -1.
C17_AllocationErrors ==
  ~panicked =>
    /\ AllocChecked(L, ReplaceCalls(L))
    /\ AllocChecked(L, InsertCalls(L))
    /\ AllocChecked(L, AppendCalls(L))
    /\ AllocChecked(L, DeleteCalls(L))
    /\ AllocChecked(L, GrowCalls(L))
    /\ AllocChecked(L, GrowRangeCalls(L))

\* C17's case: on a list that holds elements from a back offset other than
\* 0, with a release policy set, a Replace is refused for the policy's
\* error, another for a slice that is too short, a GrowRange for a slice
\* that is too long, and a Replace accepts a slice longer than min + 1.
C17_Witness ==
  /\ ~panicked /\ len > 0 /\ back > 0
  /\ \E c \in ReplaceCalls(L) : c.hf /\ c.pol = "error" /\ c.r.err = "ErrAlloc"
  /\ \E c \in ReplaceCalls(L) :
       c.hf /\ c.pol = "under" /\ c.r.err = "ErrInvalidAllocation"
  /\ \E c \in GrowRangeCalls(L) :
       c.hf /\ c.pol = "over" /\ c.j >= 0 /\ c.r.err = "ErrInvalidAllocation"
  /\ \E c \in ReplaceCalls(L) :
       /\ c.pol = "default" /\ c.r.allocs # <<>> /\ c.r.err = "nil" /\ ~c.r.p
       /\ Len(c.r.l.s) > c.r.allocs[1][1] + 1


(***************************************************************************)
(* Properties of the List (part_000) zeroing, checked under Spec.          *)
(***************************************************************************)
\* Every call of the set that invoked FreeFunc handed it the buffer of l
\* with every slot of the live window of l zeroed.
FreedZeroed(l, calls) ==
  \A c \in calls :
    c.r.freed # <<>> =>
      /\ Len(c.r.freed) = 1
      /\ Len(c.r.freed[1]) = Len(l.s)
      /\ \A k \in 0..(l.len - 1) : c.r.freed[1][abs(l, k) + 1] = Zero

\* C18: from every well-formed list, every time FreeFunc is invoked (from
\* Grow, GrowRange, a reallocating Replace, or UnmarshalJSON) it receives
\* the buffer the list was using before the call, and every slot of that
\* buffer that belonged to the live window (the Len() circular slots from
\* the back offset the list had before the operation) holds the zero value.
C18_FreedBufferZeroed ==
  (~panicked /\ WellFormed(L)) =>
    /\ FreedZeroed(L, GrowCalls(L))
    /\ FreedZeroed(L, GrowRangeCalls(L))
    /\ FreedZeroed(L, ReplaceCalls(L))
    /\ FreedZeroed(L, UnmarshalJSONCalls(L))

(***************************************************************************)
(* The state machine of a List (part_000) that starts empty, or from New   *)
(* over an all-zero buffer, whose allocation policy returns all-zero       *)
(* slices, under Insert, Append, Push, Pop, Delete, Replace, Clear, Grow   *)
(* and GrowRange.  Its buffers hold up to MaxCapZero slots.                *)
(***************************************************************************)
MaxCapZero == 7

\* The policies that return all-zero slices, or an error.
ZeroPolicies == Policies \ {"stale"}

ZeroPolicy(calls) == {c \in calls : c.pol \in ZeroPolicies}

StepZero(r) ==
  /\ ~panicked
  /\ Len(r.l.s) <= MaxCapZero
  /\ s' = r.l.s
  /\ slen' = r.l.slen
  /\ len' = r.l.len
  /\ back' = r.l.back
  /\ panicked' = r.p
  /\ UNCHANGED hist

InitZero ==
  /\ \E c \in 0..MaxCapZero, useValues \in BOOLEAN :
       LET l == New(Zeros(c), useValues) IN
       s = l.s /\ slen = l.slen /\ len = l.len /\ back = l.back
  /\ panicked = FALSE
  /\ hist = <<>>

ZeroInsert == \E c \in ZeroPolicy(InsertCalls(L)) : StepZero(c.r)

ZeroAppend == \E c \in ZeroPolicy(AppendCalls(L)) : StepZero(c.r)

ZeroPush == \E c \in ZeroPolicy(PushCalls(L)) : StepZero(c.r)

ZeroPop == \E c \in ZeroPolicy(PopCalls(L)) : StepZero(c.r)

ZeroDelete == \E c \in ZeroPolicy(DeleteCalls(L)) : StepZero(c.r)

ZeroReplace == \E c \in ZeroPolicy(ReplaceCalls(L)) : StepZero(c.r)

ZeroClear == \E c \in ClearCalls(L) : StepZero(c.r)

ZeroGrow == \E c \in ZeroPolicy(GrowCalls(L)) : StepZero(c.r)

ZeroGrowRange == \E c \in ZeroPolicy(GrowRangeCalls(L)) : StepZero(c.r)

NextZero ==
  \/ ZeroInsert
  \/ ZeroAppend
  \/ ZeroPush
  \/ ZeroPop
  \/ ZeroDelete
  \/ ZeroReplace
  \/ ZeroClear
  \/ ZeroGrow
  \/ ZeroGrowRange

SpecZero == InitZero /\ [][NextZero]_vars

\* The buffer slots of the live window: abs(0), ..., abs(Len()-1).
LiveSlots(l) == {abs(l, k) : k \in 0..(l.len - 1)}

C20_ClearZeroesWindow ==
  (~panicked /\ WellFormed(L)) =>
    \A c \in ClearCalls(L) :
      /\ ~c.r.p
      /\ c.r.ret = len
      /\ ListLen(c.r.l) = 0
      /\ c.r.l.back = 0
      /\ Cap(c.r.l) = Cap(L)
      /\ Len(c.r.l.s) = Len(s)
      /\ \A k \in LiveSlots(L) : c.r.l.s[k + 1] = Zero


(***************************************************************************)
(* Properties of Pop, of panics and of NewN (part_000).                    *)
(***************************************************************************)
\* C21: on a well-formed non-empty list of any length Pop() returns the
\* front element (logical index Len()-1), decreases Len() by exactly one
\* and leaves the elements at the remaining logical indices unchanged; on
\* an empty list it returns the zero value and changes nothing.
C21_PopRemovesFront ==
  (~panicked /\ WellFormed(L) /\ Readable(L)) =>
    \A c \in PopCalls(L) :
      IF len = 0 THEN c.r.ret = Zero /\ c.r.l = L /\ ~c.r.p
      ELSE /\ ~c.r.p
           /\ c.r.ret = Val(L, len - 1).v
           /\ ListLen(c.r.l) = len - 1
           /\ \A k \in 0..(len - 2) : Val(c.r.l, k) = Val(L, k)

\* No call of the set panicked.
NoPanic(calls) == \A c \in calls : ~c.r.p

\* C22: from any state reachable through New/NewN and the public
\* operations, and for any integer arguments, every call to Val, At, SwapOK,
\* Swap, Rotate, Push, Pop, Clear, Insert, Append, Delete, Replace, Grow,
\* GrowRange, CopyTo and StringRange returns normally: no operation has
\* panicked, and none of the calls that can be made next panics.
C22_PanicFree ==
  /\ ~panicked
  /\ \A i \in RotationsOf(L) : ~Val(L, i).p /\ ~At(L, i).p /\ ~Swap(L, i, 0 - i).p
  /\ NoPanic(SwapOKCalls(L))
  /\ NoPanic(RotateCalls(L))
  /\ NoPanic(PushCalls(L))
  /\ NoPanic(PopCalls(L))
  /\ NoPanic(ClearCalls(L))
  /\ NoPanic(InsertCalls(L))
  /\ NoPanic(AppendCalls(L))
  /\ NoPanic(DeleteCalls(L))
  /\ NoPanic(ReplaceCalls(L))
  /\ NoPanic(GrowCalls(L))
  /\ NoPanic(GrowRangeCalls(L))
  /\ NoPanic(CopyToCalls(L))
  /\ NoPanic(StringRangeCalls(L))


(***************************************************************************)
(* The state machine of one call of NewN (part_000).  In the initial state *)
(* s, back and len hold the arguments s, back and length of the call, and  *)
(* hist.op is "args"; after the call the state holds the list returned     *)
(* (the empty record of a nil list when NewN failed) and hist the call.    *)
(***************************************************************************)
MaxSlice == 5

InitNewN ==
  /\ \E c \in 0..MaxSlice : s = [k \in 1..c |-> k] /\ slen = c
  /\ back \in (0 - 1)..(MaxSlice + 1)
  /\ len \in (0 - 1)..(MaxSlice + 1)
  /\ panicked = FALSE
  /\ hist = Called("args", MkList(<<>>, 0, 0, 0), 0, 0)

DoNewN ==
  /\ hist.op = "args"
  /\ StepOrd(NewN(s, back, len).l, Called("NewN", L, 0, NewN(s, back, len)))

SpecNewN == InitNewN /\ [][DoNewN]_vars

\* C23: NewN(s, back, length) succeeds if and only if 0 <= length <= len(s)
\* and either 0 <= back < len(s) or (len(s) = 0 and back = 0); otherwise it
\* returns a nil list and ErrInvalidPosition for a bad back, else
\* ErrInvalidAmount.  On success Len() = length, Free() = len(s) - length
\* and Val(k) = s[(back + k) mod len(s)] for every k in [0, length).
C23_NewNWindow ==
  hist.op = "NewN" =>
    LET arg == hist.before
        r == hist.ret
        backOK == (0 <= arg.back /\ arg.back < Len(arg.s))
                    \/ (Len(arg.s) = 0 /\ arg.back = 0)
        lengthOK == 0 <= arg.len /\ arg.len <= Len(arg.s)
    IN /\ r.ok <=> (backOK /\ lengthOK)
       /\ ~r.ok =>
            /\ r.err = (IF ~backOK THEN "ErrInvalidPosition" ELSE "ErrInvalidAmount")
            /\ L = MkList(<<>>, 0, 0, 0)
       /\ r.ok =>
            /\ r.err = "nil"
            /\ ListLen(L) = arg.len
            /\ Free(L) = Len(arg.s) - arg.len
            /\ \A k \in 0..(arg.len - 1) :
                 Val(L, k) = [v |-> arg.s[((arg.back + k) % Len(arg.s)) + 1],
                              ok |-> TRUE, p |-> FALSE]

\* C23's case: NewN([1, 2, 3, 4, 5], 3, 4) has returned the list [4, 5, 1, 2],
\* whose window wraps.
C23_Witness ==
  /\ hist.op = "NewN" /\ hist.ret.ok
  /\ hist.before.s = <<1, 2, 3, 4, 5>> /\ hist.before.back = 3 /\ hist.before.len = 4
  /\ Logical(L) = <<4, 5, 1, 2>>
  /\ wraps(L)


(***************************************************************************)
(* part_000: MarshalJSON, and the properties of the JSON codec, checked    *)
(* under Spec.  The text is the token sequence UnmarshalJSON reads (the    *)
(* encoder writes an integer as the number UnmarshalJSON decodes), with    *)
(* p whether l.At panicked.                                                *)
(***************************************************************************)
MarshalJSON(l) ==
  IF l.len = 0 THEN [d |-> <<LB, RB>>, p |-> FALSE]
  ELSE [d |-> ArrayDoc([k \in 1..l.len |-> Num(At(l, k - 1).v)]),
        p |-> \E k \in 1..l.len : At(l, k - 1).p]

\* The lists a text is decoded into: an empty one, the encoded list itself
\* and another list that holds elements.
DecodeTargets(l) == {MkList(<<>>, 0, 0, 0), l, New(<<1, 2>>, TRUE)}

\* C24: for every well-formed list reached by any sequence of mutations
\* (Rotate, wrapping windows and non-zero back offsets included),
\* MarshalJSON emits the elements in logical order 0..Len()-1, and decoding
\* that output with UnmarshalJSON into any list yields a list whose Len()
\* and logical element sequence equal those of the encoded list.
C24_JSONRoundTrip ==
  (~panicked /\ WellFormed(L) /\ Readable(L)) =>
    /\ ~MarshalJSON(L).p
    /\ JsonItems(MarshalJSON(L).d) = [k \in 1..len |-> Num(Logical(L)[k])]
    /\ \A target \in DecodeTargets(L), hasFree \in BOOLEAN :
         LET r == UnmarshalJSON(target, MarshalJSON(L).d, hasFree) IN
         /\ ~r.p
         /\ r.err = "nil"
         /\ ListLen(r.l) = len
         /\ Logical(r.l) = Logical(L)


\* C25: when UnmarshalJSON returns an error, whatever the list held before,
\* Len() = 0 afterwards and the list is valid, Len() <= Cap().
C25_UnmarshalErrorEmpties ==
  (~panicked /\ WellFormed(L)) =>
    \A c \in UnmarshalJSONCalls(L) :
      (~c.r.p /\ c.r.err # "nil") =>
        ListLen(c.r.l) = 0 /\ ListLen(c.r.l) <= Cap(c.r.l)


\* C26: Heap.UnmarshalJSON runs Init() after decoding into the list, on
\* success and on a decoding error alike: it returns without a panic, the
\* heap invariant holds over the elements the list then contains, and the
\* decoding error, if any, is the one returned.
C26_HeapUnmarshalInits ==
  ~panicked =>
    \A c \in HeapUnmarshalJSONCalls(L) :
      /\ ~c.r.p
      /\ HeapInvariant(c.r.l)
      /\ c.r.err = DecodeError(c.d)

\* The same, for the texts other than a non-empty array beginning with a number or null.
C26_Returning ==
  ~panicked =>
    \A c \in HeapUnmarshalJSONCalls(L) :
      ~c.r.p => HeapInvariant(c.r.l) /\ c.r.err = DecodeError(c.d)


(***************************************************************************)
(* src/list/ordered.go, Invert: views of one list.  A view is the record   *)
(*   [List |-> the address of the list, cmp |-> n],                        *)
(* its comparison being the natural one with Inverse taken n times.  The   *)
(* machine holds the list at address 1 and calls Heap() and Pop() through  *)
(* the views o, o.Invert(), o.Invert().Invert(), ...; hist is the record   *)
(*   [op |-> the method called last, cmp |-> the cmp of the view used,     *)
(*    base |-> the logical sequence Heap() found, ret, ok |-> what Pop     *)
(*    returned].                                                           *)
(***************************************************************************)
\* The number of Inverts taken on a view.
MaxInvert == 2

\* f(x, y) for the CompareFunc f; CompareFunc.Inverse: f(y, x).
RECURSIVE CompareFunc(_, _, _)
CompareFunc(f, x, y) == IF f = 0 THEN cmp(x, y) ELSE CompareFunc(f - 1, y, x)

\* A view with the comparison of the original.
InvertKeeping(o) == o

Invert(o) == [o EXCEPT !.cmp = o.cmp + 1]

\* l.Ordered(cmp) of the list at address 1, then n Inverts.
RECURSIVE View(_)
View(n) == IF n = 0 THEN [List |-> 1, cmp |-> 0] ELSE Invert(View(n - 1))

\* Ordered.Compare and Ordered.Less through the view o, on the list l.
Compare(o, l, i, j) == CompareFunc(o.cmp, AtA(l, i), AtA(l, j))

LessBy(o, l, i, j) == CompareFunc(o.cmp, AtA(l, i), AtA(l, j)) < 0

RECURSIVE downLoopBy(_, _, _, _)
downLoopBy(o, l, i, n) ==
  LET j1 == 2 * i + 1 IN
  IF j1 >= n \/ j1 < 0 THEN [l |-> l, i |-> i]
  ELSE LET j2 == j1 + 1
           j == IF j2 < n /\ LessBy(o, l, j2, j1) THEN j2 ELSE j1
       IN IF ~LessBy(o, l, j, i) THEN [l |-> l, i |-> i]
          ELSE downLoopBy(o, SwapA(l, i, j), j, n)

RECURSIVE heapInitLoopBy(_, _, _, _)
heapInitLoopBy(o, l, i, n) ==
  IF i < 0 THEN l ELSE heapInitLoopBy(o, downLoopBy(o, l, i, n).l, i - 1, n)

\* o.Heap(): Heap{Ordered: o}, then Init.
HeapBy(o, l) == heapInitLoopBy(o, l, GoDiv(l.len, 2) - 1, l.len)

\* Heap.Pop of the heap of the view o.
HeapPopBy(o, l) ==
  IF l.len = 0 THEN ResA(l, FALSE, Zero, FALSE, <<>>)
  ELSE Asserted(PopFront(downLoopBy(o, SwapA(l, 0, l.len - 1), 0, l.len - 1).l))

Viewed(op, c, base, ret, ok) ==
  [op |-> op, cmp |-> c, base |-> base, ret |-> ret, ok |-> ok]

InitInvert ==
  /\ \/ \E b \in ValueBufs, bk \in 0..MaxCap, n \in 0..MaxCap :
          LET r == NewNA(b, bk, n) IN
          /\ r.ok
          /\ s = r.l.s /\ slen = r.l.slen /\ len = r.l.len /\ back = r.l.back
     \/ /\ s = <<5, 3, 8, 9>> /\ slen = 4 /\ len = 4 /\ back = 0
  /\ panicked = FALSE
  /\ hist = Viewed("New", 0, <<>>, 0, FALSE)

DoViewHeap ==
  /\ ~panicked
  /\ \E n \in 0..MaxInvert :
       StepHeap(ResA(HeapBy(View(n), L), FALSE, 0, TRUE, <<>>),
                Viewed("Heap", View(n).cmp, LogicalA(L), 0, FALSE))

DoViewPop ==
  /\ hist.op = "Heap"
  /\ LET r == HeapPopBy([List |-> 1, cmp |-> hist.cmp], L) IN
     StepHeap(r, Viewed("Pop", hist.cmp, hist.base, r.ret, r.ok))

NextInvert ==
  \/ DoViewHeap
  \/ DoViewPop

SpecInvert == InitInvert /\ [][NextInvert]_vars

\* C27: Invert() returns a view of the same list whose comparison is the
\* original with the operands exchanged, Invert().Compare(i, j) =
\* Compare(j, i); the first Pop() of a heap made through a view returns an
\* element that no other element precedes in the order of that view: 3 for
\* [5, 3, 8, 9] in the natural order, 9 through the inverted view.
C27_InvertSwapsOperands ==
  /\ \A n \in 0..MaxInvert :
       /\ Invert(View(n)).List = View(n).List
       /\ \A i, j \in 0..(len - 1) :
            Compare(Invert(View(n)), L, i, j) = Compare(View(n), L, j, i)
  /\ (~panicked /\ hist.op = "Pop" /\ Len(hist.base) > 0) =>
       /\ hist.ok
       /\ \A k \in 1..Len(hist.base) :
            CompareFunc(hist.cmp, hist.ret, hist.base[k]) <= 0
       /\ \E k \in 1..Len(hist.base) : hist.ret = hist.base[k]
       /\ hist.base = <<5, 3, 8, 9>> => hist.ret = (IF hist.cmp % 2 = 1 THEN 9 ELSE 3)

C27_Witness ==
  /\ ~panicked /\ hist.op = "Pop" /\ hist.base = <<5, 3, 8, 9>>
  /\ hist.cmp = 1 /\ hist.ret = 9 /\ len = 3


\* C28: IsSorted() returns true exactly when cmp(element k-1, element k) <= 0
\* for every logical k in [1, Len()), on the contiguous-slice path (the
\* window does not wrap) and on the index-based path (it wraps) alike.
C28_IsSortedIffOrdered ==
  (~panicked /\ WellFormed(L) /\ Readable(L)) =>
    (IsSorted(L) <=> NonDecreasing(Logical(L)))

\* The same on the contiguous-slice path only.
C28_Contiguous ==
  (~panicked /\ WellFormed(L) /\ Readable(L) /\ ~wraps(L)) =>
    (IsSorted(L) <=> NonDecreasing(Logical(L)))


(***************************************************************************)
(* Properties of Replace's allocation and lengths, checked under SpecZero. *)
(***************************************************************************)
\* Every call of the set whose range was accepted asked the allocation
\* policy for a buffer exactly when Cap() < Len() - (j - i) + len(values),
\* once, with min that new length and max unbounded.
AllocatesIffShort(l, calls) ==
  \A c \in calls :
    c.r.err \notin ValidationErrors =>
      c.r.allocs = (IF Cap(l) < ListLen(l) - (c.j - c.i) + Len(c.vals)
                    THEN <<<<ListLen(l) - (c.j - c.i) + Len(c.vals), 0 - 1>>>>
                    ELSE <<>>)

\* C29: Replace, and Insert, Append, Push and Delete built on it, invoke the
\* allocation policy if and only if Cap() < Len() - (j - i) + len(values),
\* and then exactly once, with min the new length and max unbounded; an
\* insertion of m values with Free() >= m and a pure deletion never allocate.
C29_AllocatesIffShort ==
  ~panicked =>
    /\ AllocatesIffShort(L, ReplaceCalls(L))
    /\ AllocatesIffShort(L, InsertCalls(L))
    /\ AllocatesIffShort(L, AppendCalls(L))
    /\ AllocatesIffShort(L, PushCalls(L))
    /\ AllocatesIffShort(L, DeleteCalls(L))
    /\ \A c \in InsertCalls(L) \cup AppendCalls(L) :
         Free(L) >= Len(c.vals) => c.r.allocs = <<>>
    /\ \A c \in DeleteCalls(L) : c.r.allocs = <<>>


\* Every call of the set that returned nil without a panic left
\* Len() = oldLen - (j - i) + len(values) and Cap() >= Len(); a call with
\* i = j in range and no values returned nil and left the list as it was.
LengthAfter(l, calls) ==
  \A c \in calls :
    /\ (c.r.err = "nil" /\ ~c.r.p) =>
         /\ ListLen(c.r.l) = ListLen(l) - (c.j - c.i) + Len(c.vals)
         /\ Cap(c.r.l) >= ListLen(c.r.l)
    /\ (c.i = c.j /\ 0 <= c.i /\ c.i <= ListLen(l) /\ c.vals = <<>>) =>
         /\ c.r.err = "nil" /\ ~c.r.p
         /\ c.r.l = l

\* C30: after a Replace(i, j, values...) that returns nil,
\* Len() = oldLen - (j - i) + len(values) and Cap() >= Len(), in place and
\* after a reallocation; a Replace with i = j and no values returns nil and
\* changes nothing of the buffer, the back offset, Len() and Cap().
C30_ReplaceLength == ~panicked => LengthAfter(L, ReplaceCalls(L))


(***************************************************************************)
(* Properties of Grow, Rotate, CopyTo, Push and Pop, checked under Spec.   *)
(***************************************************************************)
\* Every call of the set returned without a panic and left Len() and every
\* Val(k) as they were; a call that installed a new buffer left the back
\* offset at 0, and a call that found the free space in [min, max] (max
\* unbounded when negative) asked for no buffer and left the list alone.
ContentKept(l, calls) ==
  \A c \in calls :
    /\ ~c.r.p
    /\ ListLen(c.r.l) = ListLen(l)
    /\ \A k \in 0..(ListLen(l) - 1) : Val(c.r.l, k) = Val(l, k)
    /\ (c.r.allocs # <<>> /\ c.r.err = "nil") => c.r.l.back = 0
    /\ (c.r.err = "nil" /\ c.i <= Free(l) /\ (c.j < 0 \/ Free(l) <= c.j)) =>
         c.r.allocs = <<>> /\ c.r.l = l

\* C31: Grow and GrowRange never change the logical content: after either
\* returns, nil or an error, Len() and every Val(k) for k in [0, Len()) are
\* what they were; a new buffer is read from physical offset 0, and when the
\* free space already lies in the requested range no allocation is made and
\* the buffer and the back offset are untouched.
C31_GrowKeepsContent ==
  (~panicked /\ WellFormed(L) /\ Readable(L)) =>
    ContentKept(L, GrowCalls(L)) /\ ContentKept(L, GrowRangeCalls(L))


\* C32: Rotate(n) changes only the back offset: no buffer slot is written,
\* Len() and Cap() are unchanged, and neither the allocation policy nor the
\* release policy is invoked, for every integer n.
C32_RotateOnlyMovesBack ==
  ~panicked =>
    \A c \in RotateCalls(L) :
      /\ ~c.r.p
      /\ c.r.l.s = s
      /\ ListLen(c.r.l) = ListLen(L)
      /\ Cap(c.r.l) = Cap(L)
      /\ c.r.allocs = <<>>
      /\ c.r.freed = <<>>

\* C32's case: a list of several elements, not all zero, on which a
\* rotation by a negative amount and one by an amount beyond Len() both
\* move the back offset.
C32_Witness ==
  /\ ~panicked /\ len > 1
  /\ \E k \in 1..Len(s) : s[k] # Zero
  /\ \E c \in RotateCalls(L) : c.i < 0 /\ c.r.l.back # back
  /\ \E c \in RotateCalls(L) : c.i > len /\ c.r.l.back # back


\* C33: CopyTo(dst, i, n) with 0 <= i < Len(), 0 <= n, i + n <= Len() and
\* len(dst) >= n returns nil, sets dst[k] to the element at logical index
\* i + k for every k in [0, n), and leaves the buffer, the back offset and
\* Len() of the list unchanged.
C33_CopyToCopiesOut ==
  (~panicked /\ WellFormed(L) /\ Readable(L)) =>
    \A c \in CopyToCalls(L) :
      (0 <= c.i /\ c.i < len /\ 0 <= c.j /\ c.i + c.j <= len /\ Len(c.vals) >= c.j) =>
        /\ ~c.r.p
        /\ c.r.err = "nil"
        /\ \A k \in 0..(c.j - 1) : c.r.vals[k + 1] = Logical(L)[c.i + k + 1]
        /\ c.r.l = L


\* C34: for any list state and value v, Push(v) makes Len() grow by one with
\* Val(oldLen) = v and the earlier elements unchanged, and the Pop() that
\* follows returns v and restores the logical sequence from before the Push.
C34_PushThenPop ==
  (~panicked /\ WellFormed(L) /\ Readable(L)) =>
    \A c \in PushCalls(L) :
      (c.pol \in Honouring) =>
        /\ ~c.r.p
        /\ ListLen(c.r.l) = len + 1
        /\ Val(c.r.l, len) = [v |-> c.vals[1], ok |-> TRUE, p |-> FALSE]
        /\ \A k \in 0..(len - 1) : Val(c.r.l, k) = Val(L, k)
        /\ \A d \in PopCalls(c.r.l) :
             /\ ~d.r.p
             /\ d.r.ret = c.vals[1]
             /\ ListLen(d.r.l) = len
             /\ Logical(d.r.l) = Logical(L)


(***************************************************************************)
(* fix as a function of its arguments: the state holds the arguments       *)
(* (len is length, back is i) and the one step calls fix on them; hist is  *)
(* the record of the call.                                                 *)
(***************************************************************************)
\* The lengths are 0..MaxFixLen, the positions reach one past twice the
\* length on either side.
MaxFixLen == 5

InitFix ==
  /\ s = <<>> /\ slen = 0
  /\ len \in 0..MaxFixLen
  /\ back \in (0 - (2 * MaxFixLen + 1))..(2 * MaxFixLen + 1)
  /\ panicked = FALSE
  /\ hist = Called("args", MkList(<<>>, 0, 0, 0), 0, 0)

DoFix ==
  /\ hist.op = "args"
  /\ StepOrd(L, Called("fix", L, 0, fix(len, back)))

SpecFix == InitFix /\ [][DoFix]_vars

\* C35: fix(length, i) returns 0 when length = 0 and otherwise the one r in
\* [0, length) congruent to i modulo length, for i negative, in range, in
\* [length, 2*length) and beyond; the fast paths return what the fallback
\* ((i % length) + length) % length returns.
C35_FixIsModulo ==
  hist.op = "fix" =>
    IF len = 0 THEN hist.ret = 0
    ELSE /\ 0 <= hist.ret /\ hist.ret < len
         /\ \E q \in (0 - (2 * MaxFixLen + 2))..(2 * MaxFixLen + 2) :
              back = hist.ret + q * len
         /\ hist.ret = GoMod(GoMod(back, len) + len, len)

\* C35's case: the fallback on a negative position, fix(5, -11) = 4.
C35_Witness == hist.op = "fix" /\ len = 5 /\ back = 0 - 11 /\ hist.ret = 4


(***************************************************************************)
(* wrapCopy, selfWrapCopy and wrapClear as functions of their arguments.   *)
(* The state holds the first slice (s) and the one step calls one of the   *)
(* three on it; hist is the record                                         *)
(*   [op |-> the function called, s1, s2 |-> the slices before the call,   *)
(*    arg |-> the integer arguments, s2after |-> the second slice after,   *)
(*    n |-> the count returned].                                           *)
(***************************************************************************)
\* The slices hold up to MaxBuf elements.
MaxBuf == 4

\* The slice base+1, ..., base+n: every slot tells where it came from.
Numbered(n, base) == [k \in 1..n |-> base + k]

\* Start positions and amounts: from below the slice to beyond it.
WrapIdx == (0 - (MaxBuf + 1))..(MaxBuf + 1)

WrapCalled(op, s1, s2, arg, s2after, n) ==
  [op |-> op, s1 |-> s1, s2 |-> s2, arg |-> arg, s2after |-> s2after, n |-> n]

StepWrap(s1after, p, h) ==
  /\ s' = s1after
  /\ panicked' = p
  /\ hist' = h
  /\ UNCHANGED <<slen, len, back>>

InitWrap ==
  /\ s \in {Numbered(c, 0) : c \in 0..MaxBuf}
  /\ slen = Len(s) /\ len = 0 /\ back = 0
  /\ panicked = FALSE
  /\ hist = WrapCalled("args", s, <<>>, <<>>, <<>>, 0)

WrapCopied(s1, s2, arg, r) ==
  StepWrap(r.s1, FALSE, WrapCalled("wrapCopy", s1, s2, arg, r.s2, r.n))

DoWrapCopy ==
  /\ hist.op = "args"
  /\ \E c \in 0..MaxBuf, i1 \in WrapIdx, i2 \in WrapIdx, n \in WrapIdx :
       WrapCopied(s, Numbered(c, 10), <<i1, i2, n>>,
                  wrapCopy(s, Numbered(c, 10), i1, i2, n))

SelfWrapCopied(s1, arg, r) ==
  StepWrap(r.s, r.p, WrapCalled("selfWrapCopy", s1, <<>>, arg, <<>>, 0))

DoSelfWrapCopy ==
  /\ hist.op = "args"
  /\ \E i \in WrapIdx, n \in WrapIdx, m \in WrapIdx :
       SelfWrapCopied(s, <<i, n, m>>, selfWrapCopy(s, i, n, m))

WrapCleared(s1, arg, r) ==
  StepWrap(r.s, r.p, WrapCalled("wrapClear", s1, <<>>, arg, <<>>, r.n))

DoWrapClear ==
  /\ hist.op = "args"
  /\ \E i \in WrapIdx, n \in WrapIdx :
       WrapCleared(s, <<i, n>>, wrapClear(s, i, n))

NextWrap ==
  \/ DoWrapCopy
  \/ DoSelfWrapCopy
  \/ DoWrapClear

SpecWrap == InitWrap /\ [][NextWrap]_vars

\* The number of elements wrapCopy is to copy.
CopyCount(s1, s2, n) ==
  IF n < 1 \/ Len(s1) = 0 \/ Len(s2) = 0 THEN 0 ELSE Min3(n, Len(s1), Len(s2))

\* C36: wrapCopy(s1, s2, i1, i2, n) copies from s1 into s2: with
\* c = min(n, len(s1), len(s2)), or 0 when n < 1 or a slice is empty, it
\* returns c, sets s2[(i2 + k) mod len(s2)] = s1[(i1 + k) mod len(s1)] for
\* every k in [0, c), leaves every other slot of s2 as it was and never
\* modifies s1.
C36_WrapCopyCopiesForward ==
  (hist.op = "wrapCopy" /\ ~panicked) =>
    LET c == CopyCount(hist.s1, hist.s2, hist.arg[3])
        l1 == Len(hist.s1)
        l2 == Len(hist.s2)
        written == {(hist.arg[2] + k) % l2 : k \in 0..(c - 1)}
    IN /\ hist.n = c
       /\ \A k \in 0..(c - 1) :
            hist.s2after[((hist.arg[2] + k) % l2) + 1] =
              hist.s1[((hist.arg[1] + k) % l1) + 1]
       /\ Len(hist.s2after) = l2
       /\ \A k \in 0..(l2 - 1) : k \notin written => hist.s2after[k + 1] = hist.s2[k + 1]
       /\ s = hist.s1


\* |m|
Magnitude(m) == IF m < 0 THEN 0 - m ELSE m

\* C37: selfWrapCopy(s, i, n, m) with 1 <= n < len(s), 0 < |m| < len(s) and
\* n + |m| <= len(s) moves the circular range: afterwards
\* s[(i + m + k) mod len(s)] is the old s[(i + k) mod len(s)] for every k in
\* [0, n), to the left (m < 0) and to the right (m > 0), also when the
\* ranges overlap or wrap; with n < 1, n >= len(s) or m >= len(s) the slice
\* is left as it was.
C37_SelfWrapCopyMoves ==
  hist.op = "selfWrapCopy" =>
    LET l == Len(hist.s1)
        i == hist.arg[1]
        n == hist.arg[2]
        m == hist.arg[3]
    IN /\ (1 <= n /\ n < l /\ 0 < Magnitude(m) /\ Magnitude(m) < l
             /\ n + Magnitude(m) <= l) =>
            /\ ~panicked
            /\ \A k \in 0..(n - 1) :
                 s[((i + m + k) % l) + 1] = hist.s1[((i + k) % l) + 1]
       /\ (n < 1 \/ n >= l \/ m >= l) => (~panicked /\ s = hist.s1)



\* The slots wrapClear(s, i, n) is to clear: i, ..., i+n-1 for n >= 0, the
\* |n| slots before i for n < 0, modulo len(s); all of them when |n| >= len(s).
ClearTargets(l, i, n) ==
  IF l = 0 THEN {}
  ELSE IF n >= 0 THEN {(i + k) % l : k \in 0..(n - 1)}
  ELSE {(i + n + k) % l : k \in 0..((0 - n) - 1)}

\* C38: wrapClear(s, i, n) zeroes exactly the |n| circular slots designated
\* by (i, n), leaves every other slot as it was and returns the number of
\* slots cleared: |n|, len(s) when |n| >= len(s), 0 when n = 0 or s is
\* empty; also when the range wraps around the end of the slice.
C38_WrapClearZeroesRange ==
  hist.op = "wrapClear" =>
    LET l == Len(hist.s1)
        i == hist.arg[1]
        n == hist.arg[2]
    IN /\ ~panicked
       /\ Len(s) = l
       /\ \A k \in 0..(l - 1) :
            s[k + 1] = (IF k \in ClearTargets(l, i, n) THEN Zero ELSE hist.s1[k + 1])
       /\ hist.n = (IF l = 0 THEN 0 ELSE Min2(Magnitude(n), l))

=============================================================================
